---- MODULE Spec2Model ----
(***************************************************************************)
(* Alert lifecycle of vps-monitor: the alert state store                   *)
(* (src/vps_monitor/state.py) and the per-cycle alert processing of        *)
(* VPSMonitor (src/vps_monitor/app.py).                                    *)
(*                                                                         *)
(* Time is the value of time.time() in whole model seconds.  The clock     *)
(* only advances across calls that block: the inter-cycle sleep, metric    *)
(* sampling at the start of a cycle and the notifier's HTTP sends.  The    *)
(* local state-file write is below the resolution of the clock.            *)
(*                                                                         *)
(* An alert key is the sequence of its "_"-separated segments:             *)
(* "system_memory" is <<"system", "memory">>.                              *)
(***************************************************************************)
EXTENDS Integers, Sequences, FiniteSets, TLC

\* ---------------------------------------------------------------- bounds
Cooldown == 2
Horizon == 4
MaxWriteFailures == 1
MaxNameSegments == 2

\* The clock reads epoch seconds, far above any cooldown.
Epoch0 == Cooldown + 6
MaxTime == Epoch0 + Horizon
Time == Epoch0..MaxTime
NoTime == 0 - 1

\* ------------------------------------------------------------------ keys
MemoryKey == <<"system", "memory">>
SwapKey == <<"system", "swap">>
CpuKey == <<"system", "cpu">>
DiskKey(path) == <<"system", "disk", path>>
TrafficInKey == <<"network", "traffic", "in">>
TrafficOutKey == <<"network", "traffic", "out">>
ConnectionsKey == <<"network", "connections">>

DiskPaths == {"/", "/data"}
DiskKeys == {DiskKey(p) : p \in DiskPaths}

SystemKeys ==
    {MemoryKey, SwapKey, CpuKey, TrafficInKey, TrafficOutKey, ConnectionsKey}
        \cup DiskKeys
\* check_containers: f'docker_{name}_status', f'docker_{name}_health'
DockerKey(name, kind) == <<"docker">> \o name \o <<kind>>
WebStatusKey == DockerKey(<<"web">>, "status")
WebHealthKey == DockerKey(<<"web">>, "health")
DockerKeys == {WebStatusKey, WebHealthKey}
Keys == SystemKeys \cup DockerKeys
NoKey == << >>

\* order in which check_thresholds appends alerts (run_once: system + network)
SystemAlertOrder ==
    << MemoryKey, SwapKey, DiskKey("/"), DiskKey("/data"), CpuKey,
       TrafficInKey, TrafficOutKey, ConnectionsKey >>
DockerAlertOrder == << WebStatusKey, WebHealthKey >>

StartsWith(key, prefix) == Len(key) > 0 /\ Head(key) = prefix

\* What the configuration monitors: the keys of the enabled metrics (with
\* the configured disk paths) and of the configured containers.  Two
\* deployments: two disk paths, or the connection count and one container.
Deployments == { DiskKeys,
                 {ConnectionsKey, WebStatusKey} }

\* --------------------------------------------------- AlertStateManager
\* self.state is whatever json.load returned: a dict with an 'alerts' dict,
\* a dict without it, or a JSON array.
EmptyAlerts == [k \in {} |-> [last_alert |-> 0, active |-> FALSE]]
EmptyState == [top |-> "object", hasAlerts |-> TRUE, alerts |-> EmptyAlerts]

\* self.state['alerts'] can be evaluated
StateOk(st) == st.top = "object" /\ st.hasAlerts

DefaultLastAlert == 0

LastAlertOf(st, key) ==
    IF key \in DOMAIN st.alerts THEN st.alerts[key].last_alert
                                ELSE DefaultLastAlert

ShouldAlertGt(st, key, t) == (t - LastAlertOf(st, key)) > Cooldown
ShouldAlertInactive(st, key, t) ==
    \/ (t - LastAlertOf(st, key)) >= Cooldown
    \/ (key \in DOMAIN st.alerts /\ ~st.alerts[key].active)
ShouldAlert(st, key, t) == (t - LastAlertOf(st, key)) >= Cooldown

RecordAlertNoTime(st, key, t) ==
    [st EXCEPT !.alerts =
        [x \in (DOMAIN st.alerts) \cup {key} |->
            IF x = key THEN [last_alert |-> DefaultLastAlert, active |-> TRUE]
                       ELSE st.alerts[x]]]
RecordAlert(st, key, t) ==
    [st EXCEPT !.alerts =
        [x \in (DOMAIN st.alerts) \cup {key} |->
            IF x = key THEN [last_alert |-> t, active |-> TRUE]
                       ELSE st.alerts[x]]]

IsActive(st, key) ==
    IF key \in DOMAIN st.alerts THEN st.alerts[key].active ELSE FALSE

ClearAlertNoop(st, key) == st
ClearAlertForget(st, key) ==
    [st EXCEPT !.alerts = [x \in (DOMAIN st.alerts) \ {key} |-> st.alerts[x]]]
ClearAlert(st, key) ==
    IF key \in DOMAIN st.alerts
    THEN [st EXCEPT !.alerts[key].active = FALSE]
    ELSE st

GetActiveAlerts(st) == {k \in DOMAIN st.alerts : st.alerts[k].active}

\* ------------------------------------------------------ the state file
\* json.dump writes a number as its decimal digits and a bool as the token
\* true / false; json.load reads them back.
RECURSIVE Digits(_)
Digits(n) == IF n < 10 THEN <<n>> ELSE Append(Digits(n \div 10), n % 10)

RECURSIVE ParseNumber(_)
ParseNumber(ds) ==
    IF Len(ds) = 0 THEN 0
    ELSE 10 * ParseNumber(SubSeq(ds, 1, Len(ds) - 1)) + ds[Len(ds)]

BoolToken(b) == IF b THEN "true" ELSE "false"
ParseBool(tok) == tok = "true"

NoMembers == [k \in {} |-> [last_alert |-> <<0>>, active |-> "false"]]
FileOf(kind, top, hasAlerts, members) ==
    [kind |-> kind, top |-> top, hasAlerts |-> hasAlerts, members |-> members]

MissingFile == FileOf("missing", "none", FALSE, NoMembers)
UnreadableFile == FileOf("unreadable", "none", FALSE, NoMembers)
BadUtf8File == FileOf("badutf8", "none", FALSE, NoMembers)
NotJsonFile == FileOf("notjson", "none", FALSE, NoMembers)
JsonArrayFile == FileOf("json", "array", FALSE, NoMembers)
JsonNoAlertsFile == FileOf("json", "object", FALSE, NoMembers)

DamagedFiles ==
    {UnreadableFile, BadUtf8File, NotJsonFile, JsonArrayFile, JsonNoAlertsFile}

JsonDumpActiveOnly(st) ==
    FileOf("json", st.top, st.hasAlerts,
           [k \in GetActiveAlerts(st) |->
               [last_alert |-> Digits(st.alerts[k].last_alert),
                active |-> BoolToken(st.alerts[k].active)]])
JsonDump(st) ==
    FileOf("json", st.top, st.hasAlerts,
           [k \in DOMAIN st.alerts |->
               [last_alert |-> Digits(st.alerts[k].last_alert),
                active |-> BoolToken(st.alerts[k].active)]])

JsonLoad(file) ==
    [top |-> file.top, hasAlerts |-> file.hasAlerts,
     alerts |-> [k \in DOMAIN file.members |->
                   [last_alert |-> ParseNumber(file.members[k].last_alert),
                    active |-> ParseBool(file.members[k].active)]]]

\* _load_state: raised = the exception leaves __init__
LoadState(file) ==
    CASE file.kind = "missing" -> [raised |-> FALSE, state |-> EmptyState]
      [] file.kind \in {"unreadable", "notjson"} ->
                                  [raised |-> FALSE, state |-> EmptyState]
      [] file.kind = "badutf8" -> [raised |-> TRUE, state |-> EmptyState]
      [] OTHER                 -> [raised |-> FALSE, state |-> JsonLoad(file)]

\* _save_state: the write succeeds, fails before the file is opened for
\* writing (file untouched), or fails after open(..., 'w') truncated it.
WriteOutcomes == {"ok", "openfail", "partial"}
SaveState(st, file, outcome) ==
    CASE outcome = "ok"       -> JsonDump(st)
      [] outcome = "openfail" -> file
      [] OTHER                -> NotJsonFile

\* except IOError in _save_state: no write failure leaves the call
SaveRaisesOnFailure(outcome) == outcome # "ok"
SaveRaises(outcome) == FALSE


\* ------------------------------------------------------- the collectors
\* thresholds of DEFAULT_CONFIG
MemoryThreshold == 80
SwapThreshold == 80
DiskThreshold == 80
CpuThreshold == 80
TrafficThreshold == 100
ConnectionsThreshold == 1000

\* What psutil gives in one cycle.  Unavailable stands for a call that
\* raised FileNotFoundError / PermissionError / AccessDenied.
Unavailable == 0 - 9
NoReading == 0 - 2
ConnectionsDenied == 0 - 1

SampleOf(memory, swap, cpu, disk, inm, outm, connections) ==
    [memory |-> memory, swap |-> swap, cpu |-> cpu, disk |-> disk,
     in_mbps |-> inm, out_mbps |-> outm, connections |-> connections]
NoSample ==
    SampleOf(NoReading, NoReading, NoReading, [p \in DiskPaths |-> NoReading],
             NoReading, NoReading, NoReading)

\* config.get(<section>, <metric>, 'enabled') and system.disk.paths
ConfiguredPaths(mon) == {p \in DiskPaths : DiskKey(p) \in mon}
EnabledMetrics(mon) ==
    {m \in {"memory", "swap", "disk", "cpu", "traffic", "connections"} :
        CASE m = "memory"      -> MemoryKey \in mon
          [] m = "swap"        -> SwapKey \in mon
          [] m = "disk"        -> ConfiguredPaths(mon) # {}
          [] m = "cpu"         -> CpuKey \in mon
          [] m = "traffic"     -> TrafficInKey \in mon
          [] m = "connections" -> ConnectionsKey \in mon}

BreachesGe(reading, threshold) == reading >= threshold
\* "if data[...] > threshold"
Breaches(reading, threshold) == reading > threshold

CollectDiskZero(raw, paths) ==
    [p \in paths |-> IF raw.disk[p] = Unavailable THEN 0 ELSE raw.disk[p]]
\* collect_disk: a path whose disk_usage raised is left out of the result
CollectDisk(raw, paths) ==
    [p \in {q \in paths : raw.disk[q] # Unavailable} |-> raw.disk[p]]

\* collect_connections: -1 when net_connections raised
CollectConnections(raw) ==
    IF raw.connections = Unavailable THEN ConnectionsDenied
                                     ELSE raw.connections

SystemCollectAllIgnoreEnabled(mon, raw) ==
    [has |-> {"memory", "swap", "disk", "cpu"},
     memory |-> raw.memory, swap |-> raw.swap, cpu |-> raw.cpu,
     disk |-> CollectDisk(raw, ConfiguredPaths(mon))]
\* SystemCollector.collect_all: one entry per enabled metric
SystemCollectAll(mon, raw) ==
    [has |-> EnabledMetrics(mon) \cap {"memory", "swap", "disk", "cpu"},
     memory |-> raw.memory, swap |-> raw.swap, cpu |-> raw.cpu,
     disk |-> CollectDisk(raw, ConfiguredPaths(mon))]

\* NetworkCollector.collect_all
NetworkCollectAll(mon, raw) ==
    [has |-> EnabledMetrics(mon) \cap {"traffic", "connections"},
     in_mbps |-> raw.in_mbps, out_mbps |-> raw.out_mbps,
     connections |-> CollectConnections(raw)]

IfIn(cond, key) == IF cond THEN {key} ELSE {}

\* SystemCollector.check_thresholds: (alerts, checked_keys)
SystemCheckThresholds(mon, raw) ==
    LET data == SystemCollectAll(mon, raw)
        disk == IF "disk" \in data.has THEN DOMAIN data.disk ELSE {}
    IN  [checked_keys |->
            IfIn("memory" \in data.has, MemoryKey)
                \cup IfIn("swap" \in data.has, SwapKey)
                \cup {DiskKey(p) : p \in disk}
                \cup IfIn("cpu" \in data.has, CpuKey),
         alerts |->
            IfIn("memory" \in data.has
                    /\ Breaches(data.memory, MemoryThreshold), MemoryKey)
                \cup IfIn("swap" \in data.has
                    /\ Breaches(data.swap, SwapThreshold), SwapKey)
                \cup {DiskKey(p) : p \in
                        {q \in disk : Breaches(data.disk[q], DiskThreshold)}}
                \cup IfIn("cpu" \in data.has
                    /\ Breaches(data.cpu, CpuThreshold), CpuKey)]

NetworkCheckThresholdsNoGuard(mon, raw) ==
    LET data == NetworkCollectAll(mon, raw)
        conn == "connections" \in data.has
    IN  [checked_keys |->
            IfIn("traffic" \in data.has, TrafficInKey)
                \cup IfIn("traffic" \in data.has, TrafficOutKey)
                \cup IfIn(conn, ConnectionsKey),
         alerts |->
            IfIn("traffic" \in data.has
                    /\ Breaches(data.in_mbps, TrafficThreshold), TrafficInKey)
                \cup IfIn("traffic" \in data.has
                    /\ Breaches(data.out_mbps, TrafficThreshold),
                        TrafficOutKey)
                \cup IfIn(conn /\ Breaches(data.connections,
                                           ConnectionsThreshold),
                          ConnectionsKey)]
\* NetworkCollector.check_thresholds: (alerts, checked_keys)
NetworkCheckThresholds(mon, raw) ==
    LET data == NetworkCollectAll(mon, raw)
        conn == "connections" \in data.has /\ data.connections >= 0
    IN  [checked_keys |->
            IfIn("traffic" \in data.has, TrafficInKey)
                \cup IfIn("traffic" \in data.has, TrafficOutKey)
                \cup IfIn(conn, ConnectionsKey),
         alerts |->
            IfIn("traffic" \in data.has
                    /\ Breaches(data.in_mbps, TrafficThreshold), TrafficInKey)
                \cup IfIn("traffic" \in data.has
                    /\ Breaches(data.out_mbps, TrafficThreshold),
                        TrafficOutKey)
                \cup IfIn(conn /\ Breaches(data.connections,
                                           ConnectionsThreshold),
                          ConnectionsKey)]

\* readings around a threshold; a metric that is not enabled is not read
Around(threshold) == {threshold - 1, threshold, threshold + 1}
AtOrAbove(threshold) == {threshold, threshold + 1}
ReadingsOf(enabled, values) == IF enabled THEN values ELSE {NoReading}

\* the samples of one cycle
Samples(mon, wide) ==
    LET en == EnabledMetrics(mon)
        paths == ConfiguredPaths(mon)
        R(threshold) == IF wide THEN Around(threshold)
                                ELSE AtOrAbove(threshold)
        DiskR(p) == ReadingsOf(p \in paths,
                               R(DiskThreshold) \cup {Unavailable})
    IN  { SampleOf(m, s, c, [p \in DiskPaths |->
                                IF p = "/" THEN d1 ELSE d2], i, o, n) :
            m \in ReadingsOf("memory" \in en, R(MemoryThreshold)),
            s \in ReadingsOf("swap" \in en, R(SwapThreshold)),
            c \in ReadingsOf("cpu" \in en, R(CpuThreshold)),
            d1 \in DiskR("/"),
            d2 \in DiskR("/data"),
            i \in ReadingsOf("traffic" \in en, R(TrafficThreshold)),
            o \in ReadingsOf("traffic" \in en, R(TrafficThreshold)),
            n \in ReadingsOf("connections" \in en,
                             R(ConnectionsThreshold) \cup {Unavailable}) }

\* ------------------------------------------------------ DockerCollector
\* get_container_status of the configured container: a dict with status
\* and health (not_found when the daemon answers 404), or None when the
\* client is not available or the inspection raised.
HealthStatuses == {"none", "healthy", "unhealthy"}
StatusOf(status, health) == [status |-> status, health |-> health]
NoStatus == StatusOf("none", "none")
Inspections ==
    {StatusOf(s, h) : s \in {"running", "exited"}, h \in HealthStatuses}
        \cup {StatusOf("not_found", "none")}

\* docker.containers of the configuration names the container; check_health
\* is set when its health key is watched
Configured(mon) == mon \cap DockerKeys # {}
Obtained(mon, st) == Configured(mon) /\ st # NoStatus

\* DockerCollector.check_containers: the keys of the alerts
CheckContainers(mon, st) ==
    IF ~Obtained(mon, st) THEN {}
    ELSE IfIn(st.status # "running", WebStatusKey)
            \cup IfIn(WebHealthKey \in mon /\ st.health \notin {"none", "healthy"},
                      WebHealthKey)

\* --------------------------------------------------- ScheduledReporter
\* The cron expression matches every CronPeriod-th second.
CronPeriod == 2

\* the expression matches the instant c
CronMatches(c) == c % CronPeriod = 0

NextInstantAtOrAfter(t) ==
    IF t % CronPeriod = 0 THEN t ELSE ((t \div CronPeriod) + 1) * CronPeriod
\* croniter(expr, t).get_next(): the first matching instant after t
NextInstant(t) == ((t \div CronPeriod) + 1) * CronPeriod

\* the matching instants after a, up to and including b
InstantsBetween(a, b) == {c \in (a + 1)..b : c % CronPeriod = 0}

\* no ScheduledReporter exists while the process is down
NoSched == [enabled |-> FALSE, next_run |-> NoTime]

\* The cron setting, by what croniter does with it: "valid" parses and has
\* matching instants; "malformed" makes croniter(expr) raise; "unmatchable"
\* is accepted by croniter(expr) but get_next finds no date and raises;
\* "empty" is a falsy setting.
CronExprs == {"valid", "malformed", "unmatchable", "empty"}
CroniterRaises(expr) == expr = "malformed"
GetNextRaises(expr) == expr \in {"malformed", "unmatchable"}

\* ScheduledReporter.__init__: a falsy setting is replaced by '0 9 * * *'
EffectiveCron(expr) == IF expr = "empty" THEN "valid" ELSE expr

ValidateRaisesNever(enabled, available, expr) == FALSE
\* ConfigManager._validate: the expression is tried only when croniter was
\* imported, the report is enabled and the setting is not falsy
ValidateRaises(enabled, available, expr) ==
    available /\ enabled /\ expr # "empty" /\ CroniterRaises(expr)

\* ConfigManager.load raises: FileNotFoundError, or what _validate raises
ConfigRaises(file, enabled, available, expr) ==
    file = "missing" \/ ValidateRaises(enabled, available, expr)

InitScheduleKeepEnabled(enabled, available, expr, t) ==
    IF enabled /\ available /\ ~GetNextRaises(EffectiveCron(expr))
    THEN [enabled |-> TRUE, next_run |-> NextInstant(t)]
    ELSE [enabled |-> enabled /\ available, next_run |-> NoTime]
\* __init__ and _init_schedule: _next_run stays None when the report is
\* disabled, croniter is missing or the expression raises
InitSchedule(enabled, available, expr, t) ==
    IF enabled /\ available /\ ~GetNextRaises(EffectiveCron(expr))
    THEN [enabled |-> TRUE, next_run |-> NextInstant(t)]
    ELSE [enabled |-> FALSE, next_run |-> NoTime]

ShouldRunAfter(s, t) ==
    IF ~s.enabled \/ s.next_run = NoTime THEN FALSE ELSE t > s.next_run
\* should_run
ShouldRun(s, t) ==
    IF ~s.enabled \/ s.next_run = NoTime THEN FALSE ELSE t >= s.next_run

UpdateNextRunAddPeriod(s, t) ==
    IF ~s.enabled THEN s
    ELSE [s EXCEPT !.next_run = s.next_run + CronPeriod]
\* update_next_run: computed from the current time
UpdateNextRun(s, t) ==
    IF ~s.enabled THEN s ELSE [s EXCEPT !.next_run = NextInstant(t)]

\* ------------------------------------------------------- WeChatNotifier
\* max_retries, the default of the constructor; app.py passes none
MaxRetries == 3

\* What one requests.post of send() meets: a JSON object with errcode 0, a
\* JSON object with another errcode, a requests.RequestException, or a
\* JSON answer that is not an object (result.get raises AttributeError).
Responses == {"ok", "errcode", "request_error", "not_object"}
ResponseSeqs == [1..MaxRetries -> Responses]

\* a call of send(): the value returned (none when it raised), the
\* attempts made and the seconds slept after each
NoWaits == << >>
SendResult(result, raised, waits) ==
    [result |-> result, raised |-> raised, attempts |-> Len(waits),
     waits |-> waits]

\* The wait after the attempt numbered attempt (from 0, as in the code)
\* that met response: time.sleep(2 ** attempt) stands in the except branch.
BackoffAnyFailure(response, attempt) ==
    IF response # "ok" /\ attempt < MaxRetries - 1 THEN 2 ^ attempt ELSE 0
Backoff(response, attempt) ==
    IF response = "request_error" /\ attempt < MaxRetries - 1
    THEN 2 ^ attempt ELSE 0

RECURSIVE SendFromNoCatch(_, _, _)
SendFromNoCatch(answers, attempt, waits) ==
    IF attempt >= MaxRetries
    THEN SendResult(FALSE, FALSE, waits)
    ELSE LET response == answers[attempt + 1]
             w == Append(waits, 0)
         IN  IF response = "ok"
             THEN SendResult(TRUE, FALSE, w)
             ELSE IF response \in {"not_object", "request_error"}
             THEN SendResult(FALSE, TRUE, w)
             ELSE SendFromNoCatch(answers, attempt + 1, w)
\* the for loop of send() from the attempt numbered attempt on; waits holds
\* the seconds slept after each attempt made so far
RECURSIVE SendFrom(_, _, _)
SendFrom(answers, attempt, waits) ==
    IF attempt >= MaxRetries
    THEN SendResult(FALSE, FALSE, waits)
    ELSE LET response == answers[attempt + 1]
             w == Append(waits, Backoff(response, attempt))
         IN  IF response = "ok"
             THEN SendResult(TRUE, FALSE, w)
             ELSE IF response = "not_object"
             THEN SendResult(FALSE, TRUE, w)
             ELSE SendFrom(answers, attempt + 1, w)

\* send(): nothing is posted when the notifier is not enabled
Send(enabled, answers) ==
    IF ~enabled THEN SendResult(FALSE, FALSE, NoWaits)
                ELSE SendFrom(answers, 0, NoWaits)

\* one call of send that has not returned
NoResult == [result |-> FALSE, raised |-> FALSE, attempts |-> 0 - 1,
             waits |-> NoWaits]
NoSend == [enabled |-> FALSE, answers |-> << >>, out |-> NoResult]

\* How the endpoint behaves during one run: "reliable" answers errcode 0 to
\* every request, "flaky" answers errcode 0, another errcode or not at all,
\* "broken" answers anything, "unconfigured" is an empty or placeholder
\* webhook_url (WeChatNotifier.enabled is false).
Webhooks == {"reliable", "flaky", "broken", "unconfigured"}
WebhookEnabled(w) == w # "unconfigured"
Answers(w) ==
    IF w = "reliable" THEN {[i \in 1..MaxRetries |-> "ok"]}
    ELSE IF w = "flaky"
    THEN [1..MaxRetries -> {"ok", "errcode", "request_error"}]
    ELSE ResponseSeqs

\* how a call of send() ends for its caller
SentAs(out) == IF out.raised THEN "raised"
               ELSE IF out.result THEN "ok" ELSE "failed"
\* every attempt met a request error or an errcode other than 0
Refused(enabled, answers) ==
    enabled /\ \A i \in 1..MaxRetries :
                   answers[i] \in {"errcode", "request_error"}
\* the ways one send_* call can go under that endpoint
Deliveries(w) ==
    {[sent |-> SentAs(Send(WebhookEnabled(w), a)),
      refused |-> Refused(WebhookEnabled(w), a)] : a \in Answers(w)}
NoDelivery == [sent |-> "none", refused |-> FALSE]

\* ------------------------------------------------------------- variables
VARIABLES
    monitored,       \* keys of the enabled metrics and configured containers
    send_recovery,   \* general.send_recovery
    now,             \* time.time()
    pc,              \* position of the process
    state,           \* AlertStateManager.state
    disk,            \* content of alert_state.json
    wfails,          \* number of failed state-file writes so far
    alerts,          \* keys of this cycle's system+network alerts
    checked_keys,    \* keys of this cycle's checked_keys
    sample,          \* what psutil gave in this cycle
    obtained,        \* get_container_status returned a status in this cycle
    docker_alerts,   \* keys of this cycle's Docker alerts
    todo,            \* alerts the current for-loop still has to visit
    alerts_to_send,  \* keys appended to alerts_to_send
    rec_todo,        \* active keys the recovery loop still has to handle
    cur,             \* key between its notification and its state update
    ev,              \* what the last step did
    tracked,         \* the key whose history is observed
    hSent,           \* time of the last alert notification for tracked
    hCarried,        \* it was sent by an earlier run of the process
    hRec,            \* time of the last record_alert(tracked)
    hOwed,           \* an alert notification since the last recovery one
    hStreakStart,    \* first evaluation of the current breach streak
    hStreakIn,       \* every evaluation of the streak was inside cooldown
    hStreakSent,     \* alert notifications during the streak
    hPrevBreach,     \* tracked was reported as a breach in the last cycle
    hActiveAtStart,  \* tracked was active when this cycle began
    hCycRecov,       \* recovery notifications for tracked in this cycle
    hCycCalls,       \* send_alert calls in this cycle
    hDockCalls,      \* send_docker_alert calls in this cycle
    hApproved,       \* keys should_alert approved in this cycle
    report_enabled,  \* scheduled_report.enabled
    sched,           \* the ScheduledReporter: enabled, _next_run
    hSchedAt,        \* time at which _next_run was computed
    hCycDigests,     \* status reports sent by the last finished cycle
    hCycMissed,      \* cron instants it found passed since hSchedAt
    hLossy,          \* a stop fell inside a cycle or found a stale file
    config_file,     \* config.yaml: present or missing
    cron_expr,       \* scheduled_report.cron, by what croniter does with it
    croniter_available, \* the croniter import succeeded
    check_interval,  \* general.check_interval
    webhook,         \* how the webhook endpoint behaves
    running,         \* VPSMonitor.running
    sleep_left,      \* iterations the for loop after run_once has left
    wire,            \* one call of WeChatNotifier.send: input and result
    hStop,           \* a stop signal was handled by _signal_handler
    hSleepStop,      \* it was delivered during the inter-cycle sleep
    hTicks,          \* time.sleep(1) calls completed since then
    hBegin,          \* start of the latest cycle, kept while the loop sleeps
    hCycFailed       \* a notification of this cycle was not delivered

cfgVars == <<monitored, send_recovery, tracked, report_enabled,
            config_file, cron_expr, croniter_available, check_interval,
            webhook>>
schedVars == <<sched, hSchedAt, hCycDigests, hCycMissed>>
sigVars == <<running, wire, hStop, hSleepStop, hTicks, hBegin>>
coreVars == <<cfgVars, schedVars, sigVars>>
fixedVars == <<coreVars, sleep_left, hCycFailed>>
procVars == <<now, pc, state, disk, wfails>>
evalVars == <<checked_keys, sample, obtained>>
localVars == <<alerts, checked_keys, sample, obtained, docker_alerts, todo,
               alerts_to_send, rec_todo, cur>>
sentVars == <<hSent, hCarried>>
streakVars == <<hStreakStart, hStreakIn, hStreakSent>>
cycVars == <<hCycRecov, hCycCalls, hDockCalls, hApproved>>
histVars == <<hSent, hCarried, hRec, hOwed, hStreakStart, hStreakIn,
              hStreakSent, hPrevBreach, hActiveAtStart, hCycRecov, hLossy,
              hCycCalls, hDockCalls, hApproved>>
vars == <<monitored, send_recovery, now, pc, state, disk, wfails,
          alerts, checked_keys, sample, obtained, docker_alerts, todo,
          alerts_to_send,
          rec_todo, cur, ev, tracked, hSent, hCarried, hRec, hOwed,
          hStreakStart, hStreakIn, hStreakSent, hPrevBreach, hActiveAtStart,
          hCycRecov, hLossy, hCycCalls, hDockCalls, hApproved,
          report_enabled, sched, hSchedAt, hCycDigests, hCycMissed,
          config_file, cron_expr, croniter_available, check_interval,
          webhook, running, sleep_left, wire, hStop, hSleepStop, hTicks,
          hBegin, hCycFailed>>

\* Strings are sequences of tokens: the underscore and words without one.
\* The string of a key joins its segments with underscores.
RECURSIVE Join(_)
Join(segs) ==
    IF Len(segs) = 0 THEN << >>
    ELSE IF Len(segs) = 1 THEN <<segs[1]>>
    ELSE <<segs[1], "_">> \o Join(Tail(segs))

\* str.replace('docker_', ''): every occurrence is removed
RECURSIVE RemoveDockerPrefix(_)
RemoveDockerPrefix(str) ==
    IF Len(str) = 0 THEN << >>
    ELSE IF Len(str) >= 2 /\ str[1] = "docker" /\ str[2] = "_"
    THEN RemoveDockerPrefix(SubSeq(str, 3, Len(str)))
    ELSE <<str[1]>> \o RemoveDockerPrefix(Tail(str))

Underscores(str) == {i \in 1..Len(str) : str[i] = "_"}
Last(S) == CHOOSE i \in S : \A j \in S : j <= i
First(S) == CHOOSE i \in S : \A j \in S : i <= j

SplitHead(str) ==
    IF Underscores(str) = {} THEN str
    ELSE SubSeq(str, 1, First(Underscores(str)) - 1)
\* str.rsplit('_', 1)[0]: what precedes the last underscore
RSplitHead(str) ==
    IF Underscores(str) = {} THEN str
    ELSE SubSeq(str, 1, Last(Underscores(str)) - 1)

\* active_key.replace('docker_', '').rsplit('_', 1)[0]
DecodeContainer(key) == RSplitHead(RemoveDockerPrefix(Join(key)))

\* the container a Docker key was built for
ContainerOf(key) == SubSeq(key, 2, Len(key) - 1)

NoName == << >>
Event(type, keys, write) ==
    [type |-> type, keys |-> keys, write |-> write, name |-> NoName,
     sent |-> "none", refused |-> FALSE]

\* the event of a send_* call that went as d
Sent(e, d) == [e EXCEPT !.sent = d.sent, !.refused = d.refused]

Min(a, b) == IF a < b THEN a ELSE b

InOrder(order, S) == SelectSeq(order, LAMBDA k : k \in S)

Outcomes == IF wfails < MaxWriteFailures THEN WriteOutcomes ELSE {"ok"}
Failed(outcome) == IF outcome = "ok" THEN 0 ELSE 1

\* A state file written under an earlier configuration that had swap
\* enabled: its alert is still active.
LeftoverFile == JsonDump(RecordAlert(EmptyState, SwapKey, Epoch0))

\* The state file before the first start: absent or damaged.
InitialFiles == {MissingFile} \cup DamagedFiles

InitSched ==
    /\ sched = NoSched
    /\ hSchedAt = NoTime
    /\ hCycDigests = 0
    /\ hCycMissed = 0

\* before the first start: nothing in memory, no cycle running
InitProcess ==
    /\ InitSched
    /\ now = Epoch0
    /\ pc = "down"
    /\ state = EmptyState
    /\ alerts = {}
    /\ checked_keys = {}
    /\ sample = NoSample
    /\ obtained = FALSE
    /\ docker_alerts = {}
    /\ todo = << >>
    /\ alerts_to_send = {}
    /\ rec_todo = {}
    /\ cur = NoKey
    /\ ev = Event("init", {}, "none")
    /\ hSent = NoTime
    /\ hCarried = FALSE
    /\ hRec = NoTime
    /\ hOwed = FALSE
    /\ hStreakStart = NoTime
    /\ hStreakIn = FALSE
    /\ hStreakSent = 0
    /\ hPrevBreach = FALSE
    /\ hActiveAtStart = FALSE
    /\ hCycRecov = 0
    /\ hCycCalls = 0
    /\ hDockCalls = 0
    /\ hApproved = {}
    /\ hLossy = FALSE
    /\ running = FALSE
    /\ sleep_left = 0
    /\ wire = NoSend
    /\ hStop = FALSE
    /\ hSleepStop = FALSE
    /\ hTicks = 0
    /\ hBegin = NoTime
    /\ hCycFailed = FALSE

\* no write of the state file has failed yet
InitRest ==
    /\ InitProcess
    /\ wfails = 0

\* A configuration that loads, with no sleep between the cycles (the
\* time between two cycles is what the clock steps make it) and a webhook
\* that answers every request with errcode 0.
PlainConfig ==
    /\ config_file = "present"
    /\ cron_expr = "valid"
    /\ croniter_available = TRUE
    /\ check_interval = 0
    /\ webhook = "reliable"

Init ==
    /\ monitored \in Deployments
    /\ send_recovery \in BOOLEAN
    /\ disk \in InitialFiles
    /\ tracked \in monitored
    /\ report_enabled = FALSE
    /\ InitRest
    /\ PlainConfig

ClearLocals ==
    /\ alerts' = {}
    /\ checked_keys' = {}
    /\ sample' = NoSample
    /\ obtained' = FALSE
    /\ docker_alerts' = {}
    /\ todo' = << >>
    /\ alerts_to_send' = {}
    /\ rec_todo' = {}
    /\ cur' = NoKey

\* The clock advances while the process sleeps, samples or waits for the
\* webhook.
TickPcs == {"down", "idle", "sys_recover", "sys_clear", "docker", "report",
            "dock_clear", "dock_record"}

Tick ==
    /\ pc \in TickPcs
    /\ now < MaxTime
    /\ now' = now + 1
    /\ ev' = Event("tick", {}, "none")
    /\ UNCHANGED fixedVars
    /\ UNCHANGED <<pc, state, disk, wfails>>
    /\ UNCHANGED localVars
    /\ UNCHANGED histVars

\* VPSMonitor.__init__ -> _init_components: AlertStateManager.__init__ ->
\* _load_state, then ScheduledReporter.__init__ -> _init_schedule
\* The constructor either raises (main prints the error and exits with
\* status 1) or leaves the process at pc_after with running = run_after.
Construct(pc_after, run_after) ==
    /\ pc = "down"
    /\ LET r == LoadState(disk)
           bad == ConfigRaises(config_file, report_enabled,
                               croniter_available, cron_expr)
       IN  IF bad
           THEN /\ pc' = "down"
                /\ state' = EmptyState
                /\ ev' = Event("config_error", {}, "none")
                /\ UNCHANGED <<sched, hSchedAt, running>>
           ELSE IF r.raised
           THEN /\ pc' = "down"
                /\ state' = EmptyState
                /\ ev' = Event("start_failed", {}, "none")
                /\ UNCHANGED <<sched, hSchedAt, running>>
           ELSE /\ pc' = pc_after
                /\ state' = r.state
                /\ ev' = Event("started", {}, "none")
                /\ running' = run_after
                /\ sched' = InitSchedule(report_enabled, croniter_available,
                                         cron_expr, now)
                /\ hSchedAt' = IF sched'.enabled THEN now ELSE NoTime
    /\ UNCHANGED <<cfgVars, hCycDigests, hCycMissed>>
    /\ UNCHANGED <<wire, hStop, hSleepStop, hTicks, hBegin, sleep_left,
                   hCycFailed>>
    /\ UNCHANGED <<now, disk, wfails>>
    /\ UNCHANGED localVars
    /\ UNCHANGED histVars

\* The process starts and reaches the while loop of run() with no signal
\* delivered on the way.
Start == Construct("idle", TRUE)

AbortExit ==
    /\ pc' = "stopped"
    /\ ClearLocals
    /\ hPrevBreach' = (tracked \in alerts \cup docker_alerts)
\* An exception leaves run_once and is caught in run().
Abort ==
    /\ pc' = "idle"
    /\ ClearLocals
    /\ hPrevBreach' = (tracked \in alerts \cup docker_alerts)

\* run_once: check_thresholds of both collectors and check_containers give
\* this cycle's alerts and checked keys.
BeginCycleWith(inspections) ==
    /\ pc = "idle"
    /\ running
    /\ sleep_left = 0
    /\ \E raw \in Samples(monitored, FALSE),
          insp \in inspections :
        LET sys == SystemCheckThresholds(monitored, raw)
            net == NetworkCheckThresholds(monitored, raw)
            al == sys.alerts \cup net.alerts
            dal == CheckContainers(monitored, insp)
        IN  /\ sample' = raw
            /\ alerts' = al
            /\ checked_keys' = sys.checked_keys \cup net.checked_keys
            /\ docker_alerts' = dal
            /\ obtained' = Obtained(monitored, insp)
            /\ todo' = InOrder(SystemAlertOrder, al)
            /\ IF tracked \in al \cup dal
               THEN UNCHANGED streakVars
               ELSE /\ hStreakStart' = NoTime
                    /\ hStreakIn' = FALSE
                    /\ hStreakSent' = 0
    /\ alerts_to_send' = {}
    /\ rec_todo' = {}
    /\ cur' = NoKey
    /\ pc' = "sys_send"
    /\ ev' = Event("begin", {}, "none")
    /\ hActiveAtStart' = (StateOk(state) /\ IsActive(state, tracked))
    /\ hCycRecov' = 0
    /\ hCycCalls' = 0
    /\ hDockCalls' = 0
    /\ hApproved' = {}
    /\ sleep_left' = check_interval
    /\ hCycFailed' = FALSE
    /\ hBegin' = IF check_interval > 0 THEN now ELSE NoTime
    /\ UNCHANGED <<cfgVars, schedVars>>
    /\ UNCHANGED <<running, wire, hStop, hSleepStop, hTicks>>
    /\ UNCHANGED <<now, state, disk, wfails>>
    /\ UNCHANGED <<sentVars, hRec, hOwed, hPrevBreach, hLossy>>

\* run_once in a deployment whose Docker daemon answers every inspection
BeginCycle == BeginCycleWith(Inspections)

\* run_once when an inspection can also fail
BeginCycleAny == BeginCycleWith(Inspections \cup {NoStatus})

\* history of one should_alert evaluation of a breaching key
StreakEval(key, sentNow) ==
    IF key # tracked
    THEN UNCHANGED streakVars
    ELSE IF hStreakStart = NoTime
         THEN IF tracked \notin DOMAIN state.alerts
              THEN /\ hStreakStart' = now
                   /\ hStreakIn' = TRUE
                   /\ hStreakSent' = IF sentNow THEN 1 ELSE 0
              ELSE UNCHANGED streakVars
         ELSE /\ hStreakStart' = hStreakStart
              /\ hStreakIn' = (hStreakIn /\ now - hStreakStart < Cooldown)
              /\ hStreakSent' = IF sentNow THEN Min(hStreakSent + 1, 2)
                                           ELSE hStreakSent

\* _process_system_alerts, one iteration of "for alert in alerts"
SysSendStep ==
    /\ pc = "sys_send"
    /\ todo # << >>
    /\ LET key == Head(todo) IN
        IF ~StateOk(state)
        THEN /\ Abort
             /\ ev' = Event("cycle_error", {key}, "none")
             /\ UNCHANGED <<state, disk, wfails, hRec>>
             /\ UNCHANGED streakVars
        ELSE IF ShouldAlert(state, key, now)
        THEN \E o \in Outcomes :
             /\ state' = RecordAlert(state, key, now)
             /\ disk' = SaveState(state', disk, o)
             /\ wfails' = wfails + Failed(o)
             /\ hRec' = IF key = tracked THEN now ELSE hRec
             /\ StreakEval(key, FALSE)
             /\ IF SaveRaises(o)
                THEN /\ Abort
                     /\ ev' = Event("cycle_error", {key}, o)
                ELSE /\ alerts_to_send' = alerts_to_send \cup {key}
                     /\ todo' = Tail(todo)
                     /\ ev' = Event("record", {key}, o)
                     /\ UNCHANGED <<pc, alerts, evalVars, docker_alerts,
                                    rec_todo, cur, hPrevBreach>>
        ELSE /\ todo' = Tail(todo)
             /\ ev' = Event("suppress", {key}, "none")
             /\ StreakEval(key, FALSE)
             /\ UNCHANGED <<pc, state, disk, wfails, alerts, evalVars,
                            docker_alerts, alerts_to_send, rec_todo, cur,
                            hRec, hPrevBreach>>
    /\ UNCHANGED fixedVars
    /\ UNCHANGED now
    /\ UNCHANGED <<sentVars, hOwed, hActiveAtStart, hCycRecov, hLossy>>
    /\ UNCHANGED <<hCycCalls, hDockCalls>>
    /\ hApproved' = IF StateOk(state) /\ ShouldAlert(state, Head(todo), now)
                    THEN hApproved \cup {Head(todo)} ELSE hApproved

SystemRecoverableSystemOnly(st, chk, cur_keys) ==
    {k \in GetActiveAlerts(st) :
        /\ StartsWith(k, "system")
        /\ k \in chk
        /\ k \notin cur_keys}
\* the keys the system/network recovery loop notifies and clears
SystemRecoverable(st, chk, cur_keys) ==
    {k \in GetActiveAlerts(st) :
        /\ StartsWith(k, "system") \/ StartsWith(k, "network")
        /\ k \in chk
        /\ k \notin cur_keys}

AlertBatchesPerKey(to_send) == {{k} : k \in to_send}
\* "if alerts_to_send: send_alert(hostname, alerts_to_send)": the calls made
AlertBatches(to_send) == IF to_send # {} THEN {to_send} ELSE {}

\* _process_system_alerts: "if alerts_to_send: send_alert", then the
\* recovery loop takes the list of active keys
SysDispatch ==
    /\ pc = "sys_send"
    /\ todo = << >>
    /\ IF send_recovery /\ ~StateOk(state)
       THEN /\ Abort
            /\ ev' = Event("cycle_error", {}, "none")
            /\ UNCHANGED <<sentVars, hOwed, hStreakSent, hCycCalls>>
            /\ UNCHANGED hCycFailed
       ELSE \E d \in IF AlertBatches(alerts_to_send) = {}
                     THEN {NoDelivery} ELSE Deliveries(webhook) :
            /\ IF d.sent = "raised"
               THEN Abort
               ELSE /\ pc' = "sys_recover"
                    /\ rec_todo' =
                          IF send_recovery
                          THEN SystemRecoverable(state, checked_keys, alerts)
                          ELSE {}
                    /\ UNCHANGED <<alerts, evalVars, docker_alerts, todo,
                                   alerts_to_send, cur, hPrevBreach>>
            /\ IF AlertBatches(alerts_to_send) = {}
               THEN ev' = Event("no_alert", {}, "none")
               ELSE \E batch \in AlertBatches(alerts_to_send) :
                        ev' = Sent(Event(IF d.sent = "raised" THEN "cycle_error"
                                                         ELSE "alert",
                                         batch, "none"), d)
            /\ hCycFailed' = (hCycFailed \/ d.refused)
            /\ hCycCalls' =
                  Min(hCycCalls + Cardinality(AlertBatches(alerts_to_send)), 2)
            /\ hSent' = IF tracked \in alerts_to_send /\ d.sent # "raised"
                        THEN now ELSE hSent
            /\ hCarried' = ((tracked \notin alerts_to_send
                               \/ d.sent = "raised") /\ hCarried)
            /\ hOwed' = IF tracked \in alerts_to_send THEN TRUE ELSE hOwed
            /\ hStreakSent' =
                  IF tracked \in alerts_to_send /\ hStreakStart # NoTime
                  THEN Min(hStreakSent + 1, 2) ELSE hStreakSent
    /\ UNCHANGED <<coreVars, sleep_left>>
    /\ UNCHANGED <<now, state, disk, wfails>>
    /\ UNCHANGED <<hRec, hStreakStart, hStreakIn, hActiveAtStart, hCycRecov,
                   hDockCalls, hApproved, hLossy>>

\* a recovery notification is sent for one key of the loop
RecoverSend(from, to, type) ==
    /\ pc = from
    /\ rec_todo # {}
    /\ \E key \in rec_todo, d \in Deliveries(webhook) :
        /\ IF d.sent = "raised"
           THEN Abort
           ELSE /\ pc' = to
                /\ cur' = key
                /\ rec_todo' = rec_todo \ {key}
                /\ UNCHANGED <<alerts, evalVars, docker_alerts, todo,
                               alerts_to_send, hPrevBreach>>
        /\ ev' = Sent([Event(IF d.sent = "raised" THEN "cycle_error" ELSE type,
                             {key}, "none") EXCEPT
                         !.name = IF type = "docker_recovery"
                                  THEN DecodeContainer(key) ELSE NoName], d)
        /\ hCycFailed' = (hCycFailed \/ d.refused)
        /\ hOwed' = IF key = tracked THEN FALSE ELSE hOwed
        /\ hCycRecov' = IF key = tracked THEN Min(hCycRecov + 1, 2)
                                         ELSE hCycRecov
    /\ UNCHANGED <<hCycCalls, hDockCalls, hApproved>>
    /\ UNCHANGED <<coreVars, sleep_left>>
    /\ UNCHANGED <<now, state, disk, wfails>>
    /\ UNCHANGED <<sentVars, hRec, streakVars, hActiveAtStart, hLossy>>

\* clear_alert(active_key) after the recovery notification
RecoverClear(from, to) ==
    /\ pc = from
    /\ \E o \in Outcomes :
        /\ state' = ClearAlert(state, cur)
        /\ IF cur \in DOMAIN state.alerts
           THEN /\ disk' = SaveState(state', disk, o)
                /\ wfails' = wfails + Failed(o)
                /\ ev' = Event(IF SaveRaises(o) THEN "cycle_error"
                                                ELSE "clear", {cur}, o)
                /\ IF SaveRaises(o)
                   THEN Abort
                   ELSE /\ pc' = to
                        /\ cur' = NoKey
                        /\ UNCHANGED <<alerts, evalVars, docker_alerts,
                                       todo, alerts_to_send, rec_todo,
                                       hPrevBreach>>
           ELSE /\ o = "ok"
                /\ ev' = Event("clear", {cur}, "none")
                /\ pc' = to
                /\ cur' = NoKey
                /\ UNCHANGED <<disk, wfails, alerts, evalVars,
                               docker_alerts, todo, alerts_to_send, rec_todo,
                               hPrevBreach>>
    /\ UNCHANGED fixedVars
    /\ UNCHANGED now
    /\ UNCHANGED <<sentVars, hRec, hOwed, streakVars,
                   hActiveAtStart, cycVars, hLossy>>

SysRecoverSend == RecoverSend("sys_recover", "sys_clear", "recovery")
SysRecoverClear == RecoverClear("sys_clear", "sys_recover")

DockerRecoverableAnyPrefix(st, cur_keys) ==
    {k \in GetActiveAlerts(st) : k \notin cur_keys}
\* the keys the Docker recovery loop notifies and clears
DockerRecoverable(st, cur_keys) ==
    {k \in GetActiveAlerts(st) :
        StartsWith(k, "docker") /\ k \notin cur_keys}
DockerBeginRecoverAlways ==
    /\ pc = "sys_recover"
    /\ rec_todo = {}
    /\ pc' = "docker"
    /\ rec_todo' = DockerRecoverable(state, docker_alerts)
    /\ todo' = InOrder(DockerAlertOrder, docker_alerts)
    /\ ev' = Event("docker_begin", {}, "none")
    /\ UNCHANGED fixedVars
    /\ UNCHANGED <<now, state, disk, wfails>>
    /\ UNCHANGED <<alerts, evalVars, docker_alerts, alerts_to_send, cur>>
    /\ UNCHANGED histVars
\* run_once moves on to _process_docker_alerts, whose recovery loop takes
\* the list of active keys
DockerBegin ==
    /\ pc = "sys_recover"
    /\ rec_todo = {}
    /\ pc' = "docker"
    /\ rec_todo' = IF send_recovery
                   THEN DockerRecoverable(state, docker_alerts)
                   ELSE {}
    /\ todo' = InOrder(DockerAlertOrder, docker_alerts)
    /\ ev' = Event("docker_begin", {}, "none")
    /\ UNCHANGED fixedVars
    /\ UNCHANGED <<now, state, disk, wfails>>
    /\ UNCHANGED <<alerts, evalVars, docker_alerts, alerts_to_send, cur>>
    /\ UNCHANGED histVars

DockRecoverSend == RecoverSend("docker", "dock_clear", "docker_recovery")
DockRecoverClear == RecoverClear("dock_clear", "docker")

\* _process_docker_alerts, "for alert in alerts": should_alert and
\* send_docker_alert
DockerAlertSend ==
    /\ pc = "docker"
    /\ rec_todo = {}
    /\ todo # << >>
    /\ LET key == Head(todo) IN
        IF ~StateOk(state)
        THEN /\ Abort
             /\ ev' = Event("cycle_error", {key}, "none")
             /\ UNCHANGED <<sentVars, hOwed, hCycFailed>>
             /\ UNCHANGED streakVars
        ELSE IF ShouldAlert(state, key, now)
        THEN \E d \in Deliveries(webhook) :
             /\ IF d.sent = "raised"
                THEN Abort
                ELSE /\ pc' = "dock_record"
                     /\ cur' = key
                     /\ UNCHANGED <<alerts, evalVars, docker_alerts, todo,
                                    alerts_to_send, rec_todo, hPrevBreach>>
             /\ ev' = Sent(Event(IF d.sent = "raised" THEN "cycle_error"
                                                  ELSE "docker_alert",
                                  {key}, "none"), d)
             /\ hCycFailed' = (hCycFailed \/ d.refused)
             /\ hSent' = IF key = tracked /\ d.sent # "raised"
                         THEN now ELSE hSent
             /\ hCarried' = ((key # tracked \/ d.sent = "raised")
                              /\ hCarried)
             /\ hOwed' = IF key = tracked THEN TRUE ELSE hOwed
             /\ StreakEval(key, TRUE)
        ELSE /\ todo' = Tail(todo)
             /\ ev' = Event("suppress", {key}, "none")
             /\ StreakEval(key, FALSE)
             /\ UNCHANGED <<pc, alerts, evalVars, docker_alerts,
                            alerts_to_send, rec_todo, cur, sentVars, hOwed,
                            hPrevBreach, hCycFailed>>
    /\ UNCHANGED <<coreVars, sleep_left>>
    /\ UNCHANGED <<now, state, disk, wfails>>
    /\ UNCHANGED <<hRec, hActiveAtStart, hCycRecov, hLossy, hCycCalls>>
    /\ LET sent == StateOk(state) /\ ShouldAlert(state, Head(todo), now)
       IN  /\ hApproved' = IF sent THEN hApproved \cup {Head(todo)}
                                   ELSE hApproved
           /\ hDockCalls' = IF sent THEN Min(hDockCalls + 1, 3)
                                    ELSE hDockCalls

DockerAlertRecordIfDelivered ==
    /\ pc = "dock_record"
    /\ \E o \in Outcomes :
        /\ state' = IF ev.sent = "failed" THEN state
                    ELSE RecordAlert(state, cur, now)
        /\ disk' = SaveState(state', disk, o)
        /\ wfails' = wfails + Failed(o)
        /\ hRec' = IF cur = tracked THEN now ELSE hRec
        /\ IF SaveRaises(o)
           THEN /\ Abort
                /\ ev' = Event("cycle_error", {cur}, o)
           ELSE /\ pc' = "docker"
                /\ todo' = Tail(todo)
                /\ cur' = NoKey
                /\ ev' = Event("record", {cur}, o)
                /\ UNCHANGED <<alerts, evalVars, docker_alerts,
                               alerts_to_send, rec_todo, hPrevBreach>>
    /\ UNCHANGED fixedVars
    /\ UNCHANGED now
    /\ UNCHANGED <<sentVars, hOwed, streakVars,
                   hActiveAtStart, cycVars, hLossy>>
\* _process_docker_alerts: record_alert after send_docker_alert returned
DockerAlertRecord ==
    /\ pc = "dock_record"
    /\ \E o \in Outcomes :
        /\ state' = RecordAlert(state, cur, now)
        /\ disk' = SaveState(state', disk, o)
        /\ wfails' = wfails + Failed(o)
        /\ hRec' = IF cur = tracked THEN now ELSE hRec
        /\ IF SaveRaises(o)
           THEN /\ Abort
                /\ ev' = Event("cycle_error", {cur}, o)
           ELSE /\ pc' = "docker"
                /\ todo' = Tail(todo)
                /\ cur' = NoKey
                /\ ev' = Event("record", {cur}, o)
                /\ UNCHANGED <<alerts, evalVars, docker_alerts,
                               alerts_to_send, rec_todo, hPrevBreach>>
    /\ UNCHANGED fixedVars
    /\ UNCHANGED now
    /\ UNCHANGED <<sentVars, hOwed, streakVars,
                   hActiveAtStart, cycVars, hLossy>>

\* run_once returns; run() goes to sleep
EndCycle ==
    /\ pc = "docker"
    /\ rec_todo = {}
    /\ todo = << >>
    /\ ~ShouldRun(sched, now)
    /\ pc' = "idle"
    /\ ClearLocals
    /\ hPrevBreach' = (tracked \in alerts \cup docker_alerts)
    /\ ev' = Event("cycle_done", {}, "none")
    /\ hCycDigests' = 0
    /\ hCycMissed' = IF hSchedAt = NoTime THEN 0
                     ELSE Cardinality(InstantsBetween(hSchedAt, now))
    /\ UNCHANGED <<cfgVars, sigVars, sleep_left, hCycFailed, sched, hSchedAt>>
    /\ UNCHANGED <<now, state, disk, wfails>>
    /\ UNCHANGED <<sentVars, hRec, hOwed, streakVars,
                   hActiveAtStart, cycVars, hLossy>>

\* run_once: should_run() is true, the status report is collected and sent
ReportSend ==
    /\ pc = "docker"
    /\ rec_todo = {}
    /\ todo = << >>
    /\ ShouldRun(sched, now)
    /\ \E d \in Deliveries(webhook) :
        /\ IF d.sent = "raised"
           THEN Abort
           ELSE /\ pc' = "report"
                /\ UNCHANGED localVars
                /\ UNCHANGED hPrevBreach
        /\ ev' = Sent(Event(IF d.sent = "raised" THEN "cycle_error" ELSE "digest",
                            {}, "none"), d)
        /\ hCycFailed' = (hCycFailed \/ d.refused)
    /\ hCycDigests' = 1
    /\ hCycMissed' = Cardinality(InstantsBetween(hSchedAt, now))
    /\ UNCHANGED <<cfgVars, sigVars, sleep_left, sched, hSchedAt>>
    /\ UNCHANGED <<now, state, disk, wfails>>
    /\ UNCHANGED <<sentVars, hRec, hOwed, streakVars, hActiveAtStart,
                   cycVars, hLossy>>

\* run_once: update_next_run() after the report, then run_once returns
ReportDone ==
    /\ pc = "report"
    /\ sched' = UpdateNextRun(sched, now)
    /\ hSchedAt' = now
    /\ pc' = "idle"
    /\ ClearLocals
    /\ hPrevBreach' = (tracked \in alerts \cup docker_alerts)
    /\ ev' = Event("cycle_done", {}, "none")
    /\ UNCHANGED <<cfgVars, sigVars, sleep_left, hCycFailed,
                   hCycDigests, hCycMissed>>
    /\ UNCHANGED <<now, state, disk, wfails>>
    /\ UNCHANGED <<sentVars, hRec, hOwed, streakVars,
                   hActiveAtStart, cycVars, hLossy>>

\* The process ends: it is killed at any point, or it exits between cycles.
\* What it held in memory is gone; the state file stays.
ProcessStop ==
    /\ pc # "down"
    /\ pc' = "down"
    /\ state' = EmptyState
    /\ ClearLocals
    /\ ev' = Event("stopped", {}, "none")
    /\ hLossy' = (hLossy \/ pc # "idle"
                         \/ LoadState(disk) # [raised |-> FALSE,
                                               state |-> state])
    /\ hPrevBreach' = FALSE
    /\ hActiveAtStart' = FALSE
    /\ hCycRecov' = 0
    /\ hCycCalls' = 0
    /\ hDockCalls' = 0
    /\ hApproved' = {}
    /\ sched' = NoSched
    /\ hSchedAt' = NoTime
    /\ running' = FALSE
    /\ sleep_left' = 0
    /\ hStop' = FALSE
    /\ hSleepStop' = FALSE
    /\ hTicks' = 0
    /\ hBegin' = NoTime
    /\ hCycFailed' = FALSE
    /\ UNCHANGED <<cfgVars, wire, hCycDigests, hCycMissed>>
    /\ hCarried' = (hSent # NoTime)
    /\ hStreakStart' = NoTime
    /\ hStreakIn' = FALSE
    /\ hStreakSent' = 0
    /\ UNCHANGED <<now, disk, wfails>>
    /\ UNCHANGED <<hSent, hRec, hOwed>>

\* ----------------------------------------------------- VPSMonitor.run
\* main: VPSMonitor(config_path) returned, run() is not entered yet
Constructor == Construct("constructed", FALSE)

\* the steps of run() and of the handler leave the cycle's data alone
RunStep(type) ==
    /\ ev' = Event(type, {}, "none")
    /\ UNCHANGED <<cfgVars, schedVars, wire, hCycFailed>>
    /\ UNCHANGED <<state, disk, wfails>>
    /\ UNCHANGED localVars
    /\ UNCHANGED histVars

\* run: self._setup_signal_handlers()
SetupSignalHandlers ==
    /\ pc = "constructed"
    /\ pc' = "handlers"
    /\ RunStep("handlers_set")
    /\ UNCHANGED <<now, running, sleep_left, hStop, hSleepStop, hTicks,
                   hBegin>>

\* run: self.running = True
SetRunning ==
    /\ pc = "handlers"
    /\ pc' = "priming"
    /\ running' = TRUE
    /\ RunStep("running_set")
    /\ UNCHANGED <<now, sleep_left, hStop, hSleepStop, hTicks, hBegin>>

\* run: the check interval is read and collect_traffic() primes the rates
PrimeTraffic ==
    /\ pc = "priming"
    /\ pc' = "idle"
    /\ RunStep("primed")
    /\ UNCHANGED <<now, running, sleep_left, hStop, hSleepStop, hTicks,
                   hBegin>>

\* the positions at which SIGTERM and SIGINT reach _signal_handler
HandledPcs == {"handlers", "priming", "idle", "sleeping", "sys_send",
               "sys_recover", "sys_clear", "docker", "dock_clear",
               "dock_record", "report"}

\* the for loop after run_once is being executed
InSleepLoop == pc = "sleeping" \/ (pc = "idle" /\ sleep_left > 0)

SignalHandlerExit ==
    /\ pc \in HandledPcs
    /\ pc' = "stopped"
    /\ running' = FALSE
    /\ hStop' = TRUE
    /\ hSleepStop' = (hSleepStop \/ InSleepLoop)
    /\ UNCHANGED <<cfgVars, schedVars, wire, hCycFailed, hTicks, hBegin,
                   sleep_left>>
    /\ UNCHANGED <<now, state, disk, wfails, ev>>
    /\ UNCHANGED localVars
    /\ UNCHANGED histVars
\* _signal_handler, run between two steps of the main thread: it logs and
\* clears the flag
SignalHandler ==
    /\ pc \in HandledPcs
    /\ running' = FALSE
    /\ hStop' = TRUE
    /\ hSleepStop' = (hSleepStop \/ InSleepLoop)
    /\ UNCHANGED <<cfgVars, schedVars, wire, hCycFailed, hTicks, hBegin,
                   sleep_left>>
    /\ UNCHANGED <<now, pc, state, disk, wfails, ev>>
    /\ UNCHANGED localVars
    /\ UNCHANGED histVars

SleepCheckNoBreak ==
    /\ pc = "idle"
    /\ sleep_left > 0
    /\ pc' = "sleeping"
    /\ RunStep("sleep_check")
    /\ UNCHANGED <<now, running, sleep_left, hStop, hSleepStop, hTicks,
                   hBegin>>
\* run: "for _ in range(check_interval): if not self.running: break"
SleepCheck ==
    /\ pc = "idle"
    /\ sleep_left > 0
    /\ IF running
       THEN /\ pc' = "sleeping"
            /\ RunStep("sleep_check")
            /\ UNCHANGED sleep_left
       ELSE /\ pc' = "idle"
            /\ sleep_left' = 0
            /\ RunStep("break")
    /\ UNCHANGED <<now, running, hStop, hSleepStop, hTicks, hBegin>>

\* run: time.sleep(1) returns; a reading of the clock beyond the horizon
\* is folded onto MaxTime
SleepTick ==
    /\ pc = "sleeping"
    /\ pc' = "idle"
    /\ sleep_left' = sleep_left - 1
    /\ now' = Min(now + 1, MaxTime)
    /\ hTicks' = IF hSleepStop THEN hTicks + 1 ELSE hTicks
    /\ RunStep("slept")
    /\ UNCHANGED <<running, hStop, hSleepStop, hBegin>>

\* run: "while self.running" is false, run() logs and returns
LoopExit ==
    /\ pc = "idle"
    /\ sleep_left = 0
    /\ ~running
    /\ pc' = "stopped"
    /\ RunStep("stopped")
    /\ UNCHANGED <<now, running, sleep_left, hStop, hSleepStop, hTicks,
                   hBegin>>

Cycle ==
    \/ BeginCycle
    \/ SysSendStep
    \/ SysDispatch
    \/ SysRecoverSend
    \/ SysRecoverClear
    \/ DockerBegin
    \/ DockRecoverSend
    \/ DockRecoverClear
    \/ DockerAlertSend
    \/ DockerAlertRecord
    \/ EndCycle

\* one run of the process
Next == Tick \/ Start \/ Cycle
Spec == Init /\ [][Next]_vars

\* Deployments that watch one key: the connection count alone, or one
\* container alone.
RestartDeployments == { {ConnectionsKey}, {WebStatusKey} }

InitRestart ==
    /\ monitored \in RestartDeployments
    /\ send_recovery \in BOOLEAN
    /\ disk \in InitialFiles
    /\ tracked \in monitored
    /\ report_enabled = FALSE
    /\ InitRest
    /\ PlainConfig

\* runs of the process on the same state file
NextRestart == Tick \/ Start \/ Cycle \/ ProcessStop
SpecRestart == InitRestart /\ [][NextRestart]_vars

\* one run of the process on the state file of an earlier configuration
InitLeftover ==
    /\ monitored \in Deployments
    /\ send_recovery = TRUE
    /\ disk = LeftoverFile
    /\ tracked \in monitored
    /\ report_enabled = FALSE
    /\ InitRest
    /\ PlainConfig

SpecLeftover == InitLeftover /\ [][Next]_vars

\* One run of the process step by step through run(), with stop signals:
\* the connection count and one container are watched and the status
\* report is enabled; the state file is absent or holds a JSON array, and
\* every write of it succeeds.
\* The clock advances in the sleeps only.
MaxInterval == 2
InitRun ==
    /\ monitored = {ConnectionsKey, WebStatusKey}
    /\ send_recovery = TRUE
    /\ disk \in {MissingFile, JsonArrayFile}
    /\ tracked = ConnectionsKey
    /\ report_enabled = TRUE
    /\ config_file = "present"
    /\ cron_expr = "valid"
    /\ croniter_available = TRUE
    /\ check_interval \in 0..MaxInterval
    /\ webhook = "reliable"
    /\ InitProcess
    /\ wfails = MaxWriteFailures

\* the steps of the main thread
RunProgram ==
    \/ Constructor
    \/ SetupSignalHandlers
    \/ SetRunning
    \/ PrimeTraffic
    \/ Cycle
    \/ ReportSend
    \/ ReportDone
    \/ SleepCheck
    \/ SleepTick
    \/ LoopExit

NextRun == RunProgram \/ SignalHandler
\* the main thread is not suspended for ever
SpecRun == InitRun /\ [][NextRun]_vars /\ WF_vars(RunProgram)
\* The same run of the process when the webhook may answer anything, also
\* with JSON that is not an object; the loop sleeps between the cycles.
InitServe ==
    /\ monitored = {ConnectionsKey, WebStatusKey}
    /\ send_recovery = TRUE
    /\ disk = MissingFile
    /\ tracked = NoKey
    /\ report_enabled = TRUE
    /\ config_file = "present"
    /\ cron_expr = "valid"
    /\ croniter_available = TRUE
    /\ check_interval \in 1..MaxInterval
    /\ webhook \in {"reliable", "broken"}
    /\ InitProcess
    /\ wfails = MaxWriteFailures

SpecServe == InitServe /\ [][NextRun]_vars /\ WF_vars(RunProgram)
\* The same program when the calls of a cycle take time: a sample, a
\* notification or a report blocks for a second.
Blocked ==
    /\ pc \notin {"down", "idle"}
    /\ Tick

NextPace == RunProgram \/ SignalHandler \/ Blocked
SpecPace == InitRun /\ [][NextPace]_vars /\ WF_vars(RunProgram)\* ------------------------------------------- containers that go missing\* ------------------------------------------------ the single-file monitor
\* src/monitor.py is the same program in one file. Its AlertStateManager,
\* collectors, notifier and _process_docker_alerts are those of the
\* package; its check_thresholds return the alerts only, and run_once
\* passes the system alerts and then the network alerts to
\* _process_system_alerts, which runs its recovery loop before its alert
\* loop.
MonPcs == {"mon_sys", "mon_net"}

\* the keys the recovery loop of _process_system_alerts notifies and clears
MonRecoverable(st, cur_keys) ==
    {k \in GetActiveAlerts(st) : StartsWith(k, "system") /\ k \notin cur_keys}

\* run_once: system_collector.check_thresholds() and the entry of
\* _process_system_alerts(system_alerts)
MonBegin ==
    /\ pc = "idle"
    /\ running
    /\ sleep_left = 0
    /\ \E raw \in Samples(monitored, FALSE) :
        LET al == SystemCheckThresholds(monitored, raw).alerts
        IN  IF send_recovery /\ ~StateOk(state)
            THEN /\ Abort
                 /\ ev' = Event("cycle_error", {}, "none")
            ELSE /\ pc' = "mon_sys"
                 /\ ev' = Event("begin", {}, "none")
                 /\ sample' = raw
                 /\ alerts' = al
                 /\ todo' = InOrder(SystemAlertOrder, al)
                 /\ rec_todo' = IF send_recovery
                                THEN MonRecoverable(state, al)
                                ELSE {}
                 /\ alerts_to_send' = {}
                 /\ cur' = NoKey
                 /\ UNCHANGED <<checked_keys, obtained, docker_alerts,
                                hPrevBreach>>
    /\ hActiveAtStart' = (StateOk(state) /\ IsActive(state, tracked))
    /\ hCycRecov' = 0
    /\ hCycCalls' = 0
    /\ hDockCalls' = 0
    /\ hApproved' = {}
    /\ sleep_left' = check_interval
    /\ hCycFailed' = FALSE
    /\ hBegin' = IF check_interval > 0 THEN now ELSE NoTime
    /\ UNCHANGED <<cfgVars, schedVars>>
    /\ UNCHANGED <<running, wire, hStop, hSleepStop, hTicks>>
    /\ UNCHANGED <<now, state, disk, wfails>>
    /\ UNCHANGED <<sentVars, hRec, hOwed, streakVars, hLossy>>

\* the recovery loop of _process_system_alerts: send_recovery, clear_alert
MonRecoverSend ==
    \/ RecoverSend("mon_sys", "mon_sys_clear", "recovery")
    \/ RecoverSend("mon_net", "mon_net_clear", "recovery")
MonRecoverClear ==
    \/ RecoverClear("mon_sys_clear", "mon_sys")
    \/ RecoverClear("mon_net_clear", "mon_net")

\* _process_system_alerts, one iteration of "for alert in alerts"
MonSendStep ==
    /\ pc \in MonPcs
    /\ rec_todo = {}
    /\ todo # << >>
    /\ LET key == Head(todo) IN
        IF ~StateOk(state)
        THEN /\ Abort
             /\ ev' = Event("cycle_error", {key}, "none")
             /\ UNCHANGED <<state, disk, wfails>>
        ELSE IF ShouldAlert(state, key, now)
        THEN \E o \in Outcomes :
             /\ state' = RecordAlert(state, key, now)
             /\ disk' = SaveState(state', disk, o)
             /\ wfails' = wfails + Failed(o)
             /\ IF SaveRaises(o)
                THEN /\ Abort
                     /\ ev' = Event("cycle_error", {key}, o)
                ELSE /\ alerts_to_send' = alerts_to_send \cup {key}
                     /\ todo' = Tail(todo)
                     /\ ev' = Event("record", {key}, o)
                     /\ UNCHANGED <<pc, alerts, evalVars, docker_alerts,
                                    rec_todo, cur, hPrevBreach>>
        ELSE /\ todo' = Tail(todo)
             /\ ev' = Event("suppress", {key}, "none")
             /\ UNCHANGED <<pc, state, disk, wfails, alerts, evalVars,
                            docker_alerts, alerts_to_send, rec_todo, cur,
                            hPrevBreach>>
    /\ UNCHANGED fixedVars
    /\ UNCHANGED now
    /\ UNCHANGED <<sentVars, hRec, hOwed, streakVars, hActiveAtStart,
                   hCycRecov, hLossy, hCycCalls, hDockCalls>>
    /\ hApproved' = IF StateOk(state) /\ ShouldAlert(state, Head(todo), now)
                    THEN hApproved \cup {Head(todo)} ELSE hApproved

\* "if alerts_to_send: send_alert" ends one call of _process_system_alerts;
\* run_once goes on with the network alerts, or with check_containers
MonDispatch ==
    /\ pc \in MonPcs
    /\ rec_todo = {}
    /\ todo = << >>
    /\ \E d \in IF alerts_to_send = {} THEN {NoDelivery}
                                       ELSE Deliveries(webhook),
          raw \in Samples(monitored, FALSE),
          insp \in Inspections :
        LET al == NetworkCheckThresholds(monitored, raw).alerts
            raised == d.sent = "raised"
                        \/ (pc = "mon_sys" /\ send_recovery
                                /\ ~StateOk(state))
        IN  /\ ev' = IF alerts_to_send = {}
                     THEN Event(IF raised THEN "cycle_error" ELSE "no_alert",
                                {}, "none")
                     ELSE Sent(Event(IF d.sent = "raised" THEN "cycle_error"
                                                          ELSE "alert",
                                     alerts_to_send, "none"), d)
            /\ hCycFailed' = (hCycFailed \/ d.refused)
            /\ IF raised
               THEN Abort
               ELSE IF pc = "mon_sys"
               THEN /\ pc' = "mon_net"
                    /\ sample' = raw
                    /\ alerts' = al
                    /\ todo' = InOrder(SystemAlertOrder, al)
                    /\ rec_todo' = IF send_recovery
                                   THEN MonRecoverable(state, al)
                                   ELSE {}
                    /\ alerts_to_send' = {}
                    /\ UNCHANGED <<checked_keys, obtained, docker_alerts, cur,
                                   hPrevBreach>>
               ELSE /\ pc' = "sys_recover"
                    /\ docker_alerts' = CheckContainers(monitored, insp)
                    /\ obtained' = Obtained(monitored, insp)
                    /\ alerts_to_send' = {}
                    /\ UNCHANGED <<alerts, checked_keys, sample, todo,
                                   rec_todo, cur, hPrevBreach>>
    /\ UNCHANGED <<coreVars, sleep_left>>
    /\ UNCHANGED <<now, state, disk, wfails>>
    /\ UNCHANGED <<sentVars, hRec, hOwed, streakVars, hActiveAtStart,
                   cycVars, hLossy>>

\* One run of the single-file monitor: memory, the connection count and
\* one container are watched; every write of the state file succeeds.
InitSingle ==
    /\ monitored = {MemoryKey, ConnectionsKey, WebStatusKey}
    /\ send_recovery \in BOOLEAN
    /\ disk \in {MissingFile, JsonArrayFile}
    /\ tracked = NoKey
    /\ report_enabled = FALSE
    /\ InitProcess
    /\ wfails = MaxWriteFailures
    /\ PlainConfig

NextSingle ==
    \/ Tick
    \/ Start
    \/ MonBegin
    \/ MonRecoverSend
    \/ MonRecoverClear
    \/ MonSendStep
    \/ MonDispatch
    \/ DockerBegin
    \/ DockRecoverSend
    \/ DockRecoverClear
    \/ DockerAlertSend
    \/ DockerAlertRecord
    \/ EndCycle
SpecSingle == InitSingle /\ [][NextSingle]_vars
\* A state file written while the container was down: its status alert is
\* still active.
DockerLeftoverFile == JsonDump(RecordAlert(EmptyState, WebStatusKey, Epoch0))

\* One run of the process when an inspection of the container can fail
\* (the daemon is down, the socket is not readable), or when the container
\* has been taken out of docker.containers since the state file was
\* written.
DockerDeployments == {DockerKeys, {ConnectionsKey, WebStatusKey},
                      {ConnectionsKey}}
InitDocker ==
    /\ monitored \in DockerDeployments
    /\ send_recovery = TRUE
    /\ disk \in {MissingFile, DockerLeftoverFile}
    /\ tracked = NoKey
    /\ report_enabled = FALSE
    /\ InitRest
    /\ PlainConfig

NextDocker ==
    \/ Tick
    \/ Start
    \/ BeginCycleAny
    \/ SysSendStep
    \/ SysDispatch
    \/ SysRecoverSend
    \/ SysRecoverClear
    \/ DockerBegin
    \/ DockRecoverSend
    \/ DockRecoverClear
    \/ DockerAlertSend
    \/ DockerAlertRecord
    \/ EndCycle
SpecDocker == InitDocker /\ [][NextDocker]_vars
\* one run of the process with two keys in one pool: two disk paths, or
\* one container whose status and health are checked
InitPools ==
    /\ monitored \in {DiskKeys, DockerKeys}
    /\ send_recovery \in BOOLEAN
    /\ disk = MissingFile
    /\ tracked \in monitored
    /\ report_enabled = FALSE
    /\ InitRest
    /\ PlainConfig

SpecPools == InitPools /\ [][Next]_vars

\* ------------------------------------------- the scheduled status report
\* One run of the process with nothing to monitor and the scheduled report
\* enabled or not: the cycles have no alert to process.
InitReport ==
    /\ monitored = {}
    /\ send_recovery \in BOOLEAN
    /\ disk \in InitialFiles
    /\ tracked = NoKey
    /\ report_enabled \in BOOLEAN
    /\ InitRest
    /\ PlainConfig

NextReport ==
    \/ Tick
    \/ Start
    \/ BeginCycle
    \/ SysDispatch
    \/ DockerBegin
    \/ EndCycle
    \/ ReportSend
    \/ ReportDone
SpecReport == InitReport /\ [][NextReport]_vars

\* The same process under every start-up configuration: the file present
\* or missing, croniter installed or not, the report enabled or not, and
\* each kind of cron setting.
InitConfig ==
    /\ monitored = {}
    /\ send_recovery = TRUE
    /\ disk \in InitialFiles
    /\ tracked = NoKey
    /\ report_enabled \in BOOLEAN
    /\ config_file \in {"present", "missing"}
    /\ cron_expr \in CronExprs
    /\ croniter_available \in BOOLEAN
    /\ check_interval = 0
    /\ webhook = "reliable"
    /\ InitRest

SpecConfig == InitConfig /\ [][NextReport]_vars

\* One run of the process under each behaviour of the webhook: the
\* connection count and one container are watched, the report is enabled
\* and the state file can be written.
InitDelivery ==
    /\ monitored = {ConnectionsKey, WebStatusKey}
    /\ send_recovery = TRUE
    /\ disk = MissingFile
    /\ tracked = NoKey
    /\ report_enabled = TRUE
    /\ config_file = "present"
    /\ cron_expr = "valid"
    /\ croniter_available = TRUE
    /\ check_interval = 0
    /\ webhook \in Webhooks
    /\ InitProcess
    /\ wfails = MaxWriteFailures

\* One call of send() alone, for each setting of the notifier and each
\* sequence of answers of the webhook.
InitSend ==
    /\ monitored = {}
    /\ send_recovery = TRUE
    /\ disk = MissingFile
    /\ tracked = NoKey
    /\ report_enabled = FALSE
    /\ PlainConfig
    /\ InitSched
    /\ now = Epoch0
    /\ pc = "down"
    /\ state = EmptyState
    /\ alerts = {}
    /\ checked_keys = {}
    /\ sample = NoSample
    /\ obtained = FALSE
    /\ docker_alerts = {}
    /\ todo = << >>
    /\ alerts_to_send = {}
    /\ rec_todo = {}
    /\ cur = NoKey
    /\ ev = Event("init", {}, "none")
    /\ hSent = NoTime
    /\ hCarried = FALSE
    /\ hRec = NoTime
    /\ hOwed = FALSE
    /\ hStreakStart = NoTime
    /\ hStreakIn = FALSE
    /\ hStreakSent = 0
    /\ hPrevBreach = FALSE
    /\ hActiveAtStart = FALSE
    /\ hCycRecov = 0
    /\ hCycCalls = 0
    /\ hDockCalls = 0
    /\ hApproved = {}
    /\ hLossy = FALSE
    /\ running = FALSE
    /\ sleep_left = 0
    /\ wire \in {[enabled |-> e, answers |-> a, out |-> NoResult] :
                     e \in BOOLEAN, a \in ResponseSeqs}
    /\ hStop = FALSE
    /\ hSleepStop = FALSE
    /\ hTicks = 0
    /\ hBegin = NoTime
    /\ hCycFailed = FALSE
    /\ wfails = 0

\* send() runs to its end
NotifierSend ==
    /\ wire.out = NoResult
    /\ wire' = [wire EXCEPT !.out = Send(wire.enabled, wire.answers)]
    /\ UNCHANGED <<cfgVars, schedVars, running, hStop, hSleepStop, hTicks,
                   hBegin>>
    /\ UNCHANGED <<sleep_left, hCycFailed>>
    /\ UNCHANGED <<now, pc, state, disk, wfails, ev>>
    /\ UNCHANGED localVars
    /\ UNCHANGED histVars

NextSend == NotifierSend
SpecSend == InitSend /\ [][NextSend]_vars

\* One run of the process that watches one key, under a webhook that
\* refuses or is not configured; the state file can be written.
InitAbandon ==
    /\ monitored \in RestartDeployments
    /\ send_recovery = TRUE
    /\ disk = MissingFile
    /\ tracked \in monitored
    /\ report_enabled = FALSE
    /\ config_file = "present"
    /\ cron_expr = "valid"
    /\ croniter_available = TRUE
    /\ check_interval = 0
    /\ webhook \in {"flaky", "broken", "unconfigured"}
    /\ InitProcess
    /\ wfails = MaxWriteFailures

SpecAbandon == InitAbandon /\ [][Next]_vars
\* clear_alert alone, called with each key on each store: every key of
\* StoreKeys is unknown, or recorded at one of two times, active or not.
StoreKeys == {MemoryKey, ConnectionsKey, WebStatusKey}
StoreRecords == [last_alert : {Epoch0 - 1, Epoch0}, active : BOOLEAN]
Stores ==
    UNION {[ks -> StoreRecords] : ks \in SUBSET StoreKeys}
InitStore ==
    /\ monitored = StoreKeys
    /\ send_recovery = TRUE
    /\ tracked = NoKey
    /\ report_enabled = FALSE
    /\ PlainConfig
    /\ InitSched
    /\ now = Epoch0
    /\ pc \in {"sys_clear", "dock_clear"}
    /\ \E recs \in Stores :
          state = [top |-> "object", hasAlerts |-> TRUE, alerts |-> recs]
    /\ disk = JsonDump(state)
    /\ cur \in StoreKeys
    /\ alerts = {}
    /\ checked_keys = {}
    /\ sample = NoSample
    /\ obtained = FALSE
    /\ docker_alerts = {}
    /\ todo = << >>
    /\ alerts_to_send = {}
    /\ rec_todo = {}
    /\ ev = Event("init", {}, "none")
    /\ hSent = NoTime
    /\ hCarried = FALSE
    /\ hRec = NoTime
    /\ hOwed = FALSE
    /\ hStreakStart = NoTime
    /\ hStreakIn = FALSE
    /\ hStreakSent = 0
    /\ hPrevBreach = FALSE
    /\ hActiveAtStart = FALSE
    /\ hCycRecov = 0
    /\ hCycCalls = 0
    /\ hDockCalls = 0
    /\ hApproved = {}
    /\ hLossy = FALSE
    /\ running = TRUE
    /\ sleep_left = 0
    /\ wire = NoSend
    /\ hStop = FALSE
    /\ hSleepStop = FALSE
    /\ hTicks = 0
    /\ hBegin = NoTime
    /\ hCycFailed = FALSE
    /\ wfails = 0

NextStore == SysRecoverClear \/ DockRecoverClear
SpecStore == InitStore /\ [][NextStore]_vars
NextDelivery == Tick \/ Start \/ Cycle \/ ReportSend \/ ReportDone
SpecDelivery == InitDelivery /\ [][NextDelivery]_vars

\* ------------------------------------- the Docker recovery loop alone
NameWords == {"web", "service", "docker", "app"}
ContainerNames ==
    UNION {[1..n -> NameWords] : n \in 1..MaxNameSegments}
ContainerKeys ==
    {DockerKey(n, kind) : n \in ContainerNames, kind \in {"status", "health"}}

\* The process is in the recovery loop of _process_docker_alerts with the
\* active alert of one configured container, which runs again.
InitDecode ==
    /\ report_enabled = FALSE
    /\ InitSched
    /\ monitored \in {{k} : k \in ContainerKeys}
    /\ send_recovery = TRUE
    /\ tracked \in monitored
    /\ now = Epoch0
    /\ pc = "docker"
    /\ state = RecordAlert(EmptyState, tracked, Epoch0)
    /\ disk = JsonDump(state)
    /\ wfails = 0
    /\ alerts = {}
    /\ checked_keys = {}
    /\ sample = NoSample
    /\ obtained = FALSE
    /\ docker_alerts = {}
    /\ todo = << >>
    /\ alerts_to_send = {}
    /\ rec_todo = DockerRecoverable(state, docker_alerts)
    /\ cur = NoKey
    /\ ev = Event("docker_begin", {}, "none")
    /\ hSent = Epoch0
    /\ hCarried = FALSE
    /\ hRec = Epoch0
    /\ hOwed = TRUE
    /\ hStreakStart = NoTime
    /\ hStreakIn = FALSE
    /\ hStreakSent = 0
    /\ hPrevBreach = TRUE
    /\ hActiveAtStart = TRUE
    /\ hCycRecov = 0
    /\ hCycCalls = 0
    /\ hDockCalls = 0
    /\ hApproved = {}
    /\ hLossy = FALSE
    /\ running = TRUE
    /\ sleep_left = 0
    /\ wire = NoSend
    /\ hStop = FALSE
    /\ hSleepStop = FALSE
    /\ hTicks = 0
    /\ hBegin = NoTime
    /\ hCycFailed = FALSE
    /\ PlainConfig

NextDecode == DockRecoverSend \/ DockRecoverClear
SpecDecode == InitDecode /\ [][NextDecode]_vars

\* ------------------------------------------- the collectors on their own
\* Configurations of the threshold evaluator: every metric enabled (two
\* disk paths), each metric disabled in turn, a single disk path, nothing.
EvalDeployments ==
    {SystemKeys, {}, SystemKeys \ {DiskKey("/")}}
        \cup {SystemKeys \ {k} : k \in {MemoryKey, SwapKey, CpuKey,
                                        ConnectionsKey}}
        \cup {SystemKeys \ DiskKeys,
              SystemKeys \ {TrafficInKey, TrafficOutKey}}

InitEval ==
    /\ monitored \in EvalDeployments
    /\ send_recovery = TRUE
    /\ disk = MissingFile
    /\ tracked = NoKey
    /\ report_enabled = FALSE
    /\ InitRest
    /\ PlainConfig

\* check_thresholds of both collectors on one sample
CheckThresholds ==
    /\ sample = NoSample
    /\ obtained = FALSE
    /\ \E raw \in Samples(monitored, TRUE) :
        LET sys == SystemCheckThresholds(monitored, raw)
            net == NetworkCheckThresholds(monitored, raw)
        IN  /\ sample' = raw
            /\ alerts' = sys.alerts \cup net.alerts
            /\ checked_keys' = sys.checked_keys \cup net.checked_keys
            /\ ev' = Event("evaluated", sys.alerts \cup net.alerts, "none")
    /\ UNCHANGED fixedVars
    /\ UNCHANGED procVars
    /\ UNCHANGED <<obtained, docker_alerts, todo, alerts_to_send, rec_todo,
                   cur>>
    /\ UNCHANGED histVars

NextEval == CheckThresholds
SpecEval == InitEval /\ [][NextEval]_vars

TypeOK ==
    /\ now \in Time
    /\ pc \in {"down", "idle", "sys_send", "sys_recover", "sys_clear",
               "docker", "dock_clear", "dock_record", "report",
               "constructed", "handlers", "priming", "sleeping", "stopped"}
    /\ DOMAIN state.alerts \subseteq Keys
    /\ \A k \in DOMAIN state.alerts : state.alerts[k].last_alert \in Time
    /\ alerts \subseteq checked_keys
    /\ hSent \in Time \cup {NoTime}

\* ---------------------------------------------------------- properties
AlertTypes == {"alert", "docker_alert"}
RecoveryTypes == {"recovery", "docker_recovery"}
DockerPcs == {"docker", "dock_clear", "dock_record"}
FailedWrites == {"openfail", "partial"}

\* the step just taken evaluated should_alert for the tracked key
EvaluatedTracked ==
    /\ pc \in {"sys_send", "docker"}
    /\ ev'.type \in {"record", "suppress", "docker_alert"}
    /\ tracked \in ev'.keys

\* C1: within one run of the process, an alert notification for a key is
\* dispatched at least Cooldown seconds after the previous alert
\* notification for that key, whatever breaches and recoveries lie between.
C1_CooldownBetweenAlerts ==
    [][ (ev'.type \in AlertTypes /\ tracked \in ev'.keys /\ hSent # NoTime)
            => now' - hSent >= Cooldown ]_vars

\* a further alert notification for a key that was alerted, recovered and
\* breaches again
C1_Witness ==
    /\ ev.type \in AlertTypes
    /\ tracked \in ev.keys
    /\ hStreakStart = NoTime
    /\ ~hActiveAtStart

\* C2: should_alert(k) is true exactly when k was never recorded or the
\* last record_alert(k) is at least Cooldown seconds old.
C2_ShouldAlertIffCooldownElapsed ==
    (pc # "down" /\ StateOk(state)) =>
        (ShouldAlert(state, tracked, now)
            <=> (hRec = NoTime \/ now - hRec >= Cooldown))

\* exactly Cooldown seconds after record_alert the answer is true again
C2_Witness ==
    /\ pc # "down"
    /\ hRec # NoTime
    /\ now = hRec + Cooldown
    /\ ShouldAlert(state, tracked, now)

\* C3: a key that had no record and breaches in consecutive cycles, all
\* evaluated less than Cooldown seconds after the first, gets exactly one
\* alert notification.
C3_OneAlertPerStreakInCooldown ==
    (hStreakStart # NoTime /\ hStreakIn /\ pc # "sys_send")
        => hStreakSent = 1

\* a later cycle of the streak suppressed the breach
C3_Witness ==
    /\ hStreakStart # NoTime
    /\ hStreakIn
    /\ hStreakSent = 1
    /\ ev.type = "suppress"
    /\ tracked \in ev.keys

\* C4 as stated: a system/network key reported as a breach in the last
\* cycle, checked and not breaching in this one, gets exactly one recovery
\* notification in this cycle and is not active afterwards.
C4_Original ==
    (/\ send_recovery
     /\ tracked \in SystemKeys
     /\ StateOk(state)
     /\ hPrevBreach
     /\ tracked \in checked_keys
     /\ tracked \notin alerts
     /\ pc \in DockerPcs)
        => (hCycRecov = 1 /\ ~IsActive(state, tracked))

\* C4 as amended: the same, for a key that is active when the cycle begins
\* (its breach was notified, not suppressed after an earlier recovery).
C4_RecoveryOfActiveKey ==
    (/\ send_recovery
     /\ tracked \in SystemKeys
     /\ StateOk(state)
     /\ hPrevBreach
     /\ hActiveAtStart
     /\ tracked \in checked_keys
     /\ tracked \notin alerts
     /\ pc \in DockerPcs)
        => (hCycRecov = 1 /\ ~IsActive(state, tracked))

C4_Witness ==
    /\ send_recovery
    /\ tracked \in SystemKeys
    /\ hPrevBreach
    /\ hActiveAtStart
    /\ tracked \in checked_keys
    /\ tracked \notin alerts
    /\ pc = "docker"
    /\ hCycRecov = 1

C6_Original ==
    (ev.type = "suppress" /\ tracked \in ev.keys) => hOwed

\* C6 as amended: a breach of a key that was cleared by a recovery is
\* notified exactly when its last record_alert is at least Cooldown seconds
\* old; clear_alert keeps last_alert.
C6_ClearedKeyKeepsCooldown ==
    [][ (EvaluatedTracked /\ hRec # NoTime /\ ~hOwed)
            => (ev'.type # "suppress" <=> now - hRec >= Cooldown) ]_vars

\* the breach of a cleared key is suppressed inside the cooldown
C6_Witness ==
    /\ ev.type = "suppress"
    /\ tracked \in ev.keys
    /\ hRec # NoTime
    /\ ~hOwed
    /\ now - hRec < Cooldown

\* C7 as stated, for runs in which every state write succeeded: across a
\* stop at any point and a restart, alert notifications for a key stay
\* Cooldown apart and a key notified and not recovered is active.
C7_Original ==
    /\ [][ (/\ wfails = 0
            /\ ev'.type \in AlertTypes
            /\ tracked \in ev'.keys
            /\ hSent # NoTime)
               => now' - hSent >= Cooldown ]_vars
    /\ []((wfails = 0 /\ ev.type = "started" /\ hOwed)
               => IsActive(state, tracked))

\* C8: writing any state built by record_alert and clear_alert and loading
\* the file gives back the same keys, timestamps and active flags.
C8_RoundTrip ==
    (pc # "down" /\ StateOk(state)) =>
        LoadState(SaveState(state, disk, "ok"))
            = [raised |-> FALSE, state |-> state]

\* two records, one active and one cleared
C8_Witness ==
    /\ pc # "down"
    /\ Cardinality(DOMAIN state.alerts) = 2
    /\ \E k \in DOMAIN state.alerts : state.alerts[k].active
    /\ \E k \in DOMAIN state.alerts :
           ~state.alerts[k].active /\ state.alerts[k].last_alert >= 10
    /\ \E k \in DOMAIN state.alerts : state.alerts[k].last_alert < 10

\* C9 as stated: whatever the state file holds, start-up succeeds with an
\* empty store.
C9_Original ==
    (ev.type \in {"started", "start_failed"})
        => (ev.type = "started" /\ state = EmptyState)

\* C10: a failed write in record_alert or clear_alert raises nothing, the
\* record in memory carries the change, and the store keeps answering from
\* memory.
C10_WriteFailureSwallowed ==
    /\ (ev.write \in FailedWrites) =>
          /\ pc # "idle"
          /\ ev.type \in {"record", "clear"}
          /\ LoadState(disk).state # state
          /\ \A k \in ev.keys :
                IF ev.type = "record"
                THEN /\ k \in DOMAIN state.alerts
                     /\ state.alerts[k] = [last_alert |-> now, active |-> TRUE]
                     /\ IsActive(state, k)
                     /\ k \in GetActiveAlerts(state)
                     /\ ~ShouldAlert(state, k, now)
                ELSE /\ k \in DOMAIN state.alerts
                     /\ ~IsActive(state, k)
                     /\ k \notin GetActiveAlerts(state)
    /\ (pc # "down" /\ wfails > 0 /\ hRec # NoTime) =>
          /\ tracked \in DOMAIN state.alerts
          /\ state.alerts[tracked].last_alert = hRec

\* a breach is suppressed from the record whose write had failed
C10_Witness ==
    /\ wfails > 0
    /\ ev.type = "suppress"
    /\ tracked \in ev.keys
    /\ tracked \notin DOMAIN LoadState(disk).state.alerts

\* C11: an enabled numeric metric that was read is reported as a breach
\* exactly when its reading is greater than its threshold.
C11_BreachIffAboveThreshold ==
    (sample # NoSample) =>
        /\ MemoryKey \in monitored =>
              (MemoryKey \in alerts <=> sample.memory > MemoryThreshold)
        /\ SwapKey \in monitored =>
              (SwapKey \in alerts <=> sample.swap > SwapThreshold)
        /\ CpuKey \in monitored =>
              (CpuKey \in alerts <=> sample.cpu > CpuThreshold)
        /\ \A p \in DiskPaths :
              (DiskKey(p) \in monitored /\ sample.disk[p] # Unavailable) =>
                  (DiskKey(p) \in alerts <=> sample.disk[p] > DiskThreshold)
        /\ TrafficInKey \in monitored =>
              (TrafficInKey \in alerts <=> sample.in_mbps > TrafficThreshold)
        /\ TrafficOutKey \in monitored =>
              (TrafficOutKey \in alerts
                  <=> sample.out_mbps > TrafficThreshold)
        /\ (ConnectionsKey \in monitored
                /\ sample.connections # Unavailable) =>
              (ConnectionsKey \in alerts
                  <=> sample.connections > ConnectionsThreshold)

\* every metric enabled, one reading at its threshold, one above, one below
C11_Witness ==
    /\ monitored = SystemKeys
    /\ sample.memory = MemoryThreshold
    /\ MemoryKey \notin alerts
    /\ sample.connections = ConnectionsThreshold + 1
    /\ ConnectionsKey \in alerts
    /\ sample.disk["/data"] = DiskThreshold - 1
    /\ sample.in_mbps = TrafficThreshold + 1
    /\ TrafficInKey \in alerts

\* a recovery notification or a clear_alert for key k
RecoveredOrCleared(k) ==
    /\ ev'.type \in {"recovery", "docker_recovery", "clear"}
    /\ k \in ev'.keys

\* key k is active before and after the step
StaysActive(k) ==
    (StateOk(state) /\ IsActive(state, k))
        => (StateOk(state') /\ IsActive(state', k))

\* C12: the key of a disabled metric is in no cycle's checked set or
\* alerts, no recovery is sent for it and it is not cleared: if it is active
\* it stays active.
C12_DisabledMetricUntouched ==
    /\ [](\A k \in SystemKeys \ monitored :
              k \notin checked_keys /\ k \notin alerts)
    /\ [][ \A k \in SystemKeys \ monitored :
              ~RecoveredOrCleared(k) /\ (pc # "down" => StaysActive(k)) ]_vars

\* the swap alert of an earlier configuration is still active after a
\* cycle whose recovery loop recovered another key
C12_Witness ==
    /\ send_recovery
    /\ SwapKey \notin monitored
    /\ pc = "docker"
    /\ IsActive(state, SwapKey)
    /\ hCycRecov = 1

\* the disk paths whose disk_usage raised in the running cycle
FailedPaths ==
    {p \in DiskPaths : DiskKey(p) \in monitored
                        /\ sample.disk[p] = Unavailable}

\* C13: a configured disk path that cannot be sampled gives no checked key,
\* no alert and no recovery in that cycle; the other paths are evaluated
\* and the cycle goes on.
C13_UnsampledDiskPathSkipped ==
    /\ [](\A p \in FailedPaths :
            /\ DiskKey(p) \notin checked_keys
            /\ DiskKey(p) \notin alerts
            /\ \A q \in DiskPaths :
                  (DiskKey(q) \in monitored /\ q \notin FailedPaths)
                      => /\ DiskKey(q) \in checked_keys
                         /\ DiskKey(q) \in alerts
                                <=> sample.disk[q] > DiskThreshold)
    /\ [][ \A p \in FailedPaths :
            /\ ~RecoveredOrCleared(DiskKey(p))
            /\ StaysActive(DiskKey(p))
            /\ DiskKey(p) \notin ev'.keys
            /\ StateOk(state) => ev'.type # "cycle_error" ]_vars

\* /data cannot be sampled while its alert is active; / breaches and is
\* notified in the same cycle
C13_Witness ==
    /\ send_recovery
    /\ pc = "docker"
    /\ sample.disk["/data"] = Unavailable
    /\ IsActive(state, DiskKey("/data"))
    /\ DiskKey("/") \in alerts_to_send

\* C14: when net_connections is denied the reading is -1, the key
\* network_connections is neither checked nor a breach, and an active
\* network_connections alert is neither recovered nor cleared in that cycle.
C14_DeniedConnectionsSkipped ==
    /\ []((ConnectionsKey \in monitored /\ sample.connections = Unavailable)
            => /\ CollectConnections(sample) < 0
               /\ ConnectionsKey \notin checked_keys
               /\ ConnectionsKey \notin alerts)
    /\ [][ (ConnectionsKey \in monitored
                /\ sample.connections = Unavailable)
            => /\ ~RecoveredOrCleared(ConnectionsKey)
               /\ StaysActive(ConnectionsKey) ]_vars

\* the connection alert is active and survives a cycle with a denied count
C14_Witness ==
    /\ send_recovery
    /\ pc = "docker"
    /\ sample.connections = Unavailable
    /\ IsActive(state, ConnectionsKey)
    /\ ev.type = "docker_begin"

\* the record of key k is the same before and after the step
RecordUnchanged(k) ==
    StateOk(state) =>
        /\ StateOk(state')
        /\ (k \in DOMAIN state.alerts) <=> (k \in DOMAIN state'.alerts)
        /\ k \in DOMAIN state.alerts => state'.alerts[k] = state.alerts[k]

SystemPcs == {"sys_send", "sys_recover", "sys_clear"}

\* C15: a step of the system/network processing sends no recovery for and
\* clears no docker_ key and leaves the docker_ records as they are; a step
\* of the Docker processing does the same for system_ and network_ keys.
C15_RecoveryScopedByPrefix ==
    [][ /\ pc \in SystemPcs =>
              \A k \in Keys : StartsWith(k, "docker") =>
                  ~RecoveredOrCleared(k) /\ RecordUnchanged(k)
        /\ pc \in DockerPcs =>
              \A k \in Keys :
                  (StartsWith(k, "system") \/ StartsWith(k, "network")) =>
                      ~RecoveredOrCleared(k) /\ RecordUnchanged(k) ]_vars

\* the Docker recovery loop runs while a network alert is active and still
\* breaching, and clears the container's alert only
C15_Witness ==
    /\ pc = "docker"
    /\ ev.type = "clear"
    /\ ev.keys = {WebStatusKey}
    /\ IsActive(state, ConnectionsKey)
    /\ ConnectionsKey \in alerts

\* C16: the system/network pool makes at most one alert notification call
\* per cycle, made exactly when should_alert approved a breach of the
\* cycle, and listing the approved breaches; the Docker pool makes one call
\* per approved key, each for that key alone.
C16_OneBatchPerCycle ==
    /\ [](hCycCalls <= 1)
    /\ []((pc \in {"sys_recover", "sys_clear"} \cup DockerPcs)
            => (hCycCalls = 1 <=> hApproved \cap SystemKeys # {}))
    /\ [][ ev'.type = "alert" =>
              /\ ev'.keys = hApproved \cap SystemKeys
              /\ ev'.keys \subseteq alerts
              /\ ev'.keys # {} ]_vars
    /\ [](hDockCalls = Cardinality(hApproved \cap DockerKeys))
    /\ [][ ev'.type = "docker_alert" =>
              /\ Cardinality(ev'.keys) = 1
              /\ ev'.keys \subseteq docker_alerts
              /\ ev'.keys \subseteq hApproved' \ hApproved ]_vars

\* one call for two disk paths, one of three breaching paths suppressed
C16_Witness ==
    /\ ev.type = "alert"
    /\ ev.keys = {DiskKey("/data")}
    /\ alerts = DiskKeys
    /\ hCycCalls = 1

\* two Docker calls in one cycle
C16_WitnessDocker ==
    /\ hDockCalls = 2
    /\ ev.type = "docker_alert"

\* C17 as stated: the container name in a Docker recovery notification is
\* the name of the container the recovered key was built for.
C17_Original ==
    (ev.type = "docker_recovery") =>
        \A k \in ev.keys : ev.name = Join(ContainerOf(k))

C19_ShouldRunIffDue ==
    (pc # "down") =>
        /\ sched.enabled = report_enabled
        /\ ShouldRun(sched, now)
              <=> (report_enabled /\ sched.next_run # NoTime
                                  /\ now >= sched.next_run)
        /\ (~report_enabled \/ sched.next_run = NoTime)
              => ~ShouldRun(sched, now)

\* the clock reads exactly next_run and the report is sent
C19_Witness ==
    /\ report_enabled
    /\ now = sched.next_run
    /\ ev.type = "digest"

\* C20: a cycle that completes sends one status report if at least one
\* cron instant has passed since next_run was computed, however many have,
\* and none otherwise; next_run is then computed from the current time, so
\* no report is sent before a further cron instant.
C20_NoCatchUp ==
    /\ [](hCycDigests <= 1)
    /\ []((ev.type = "cycle_done" /\ report_enabled)
            => hCycDigests = (IF hCycMissed >= 1 THEN 1 ELSE 0))
    /\ [][ ev'.type = "digest"
            => InstantsBetween(hSchedAt, now') # {} ]_vars
    /\ []((pc # "down" /\ report_enabled)
            => /\ sched.next_run > hSchedAt
               /\ sched.next_run % CronPeriod = 0
               /\ InstantsBetween(hSchedAt, sched.next_run - 1) = {})

\* two cron instants passed before the cycle, which sent one report
C20_Witness ==
    /\ ev.type = "cycle_done"
    /\ hCycMissed = 2
    /\ hCycDigests = 1

\* C21: whenever next_run is computed, by the constructor or by
\* update_next_run, it is the earliest matching instant strictly after the
\* current time, also when the current time is itself a matching instant,
\* and should_run() is false right afterwards.
C21_NextRunStrictlyAfterNow ==
    [][ (/\ ev'.type = "started" \/ (pc = "report" /\ pc' = "idle")
         /\ sched'.enabled)
            => /\ sched'.next_run > now'
               /\ CronMatches(sched'.next_run)
               /\ \A c \in (now' + 1)..(sched'.next_run - 1) :
                      ~CronMatches(c)
               /\ ~ShouldRun(sched', now') ]_vars

\* the process is started exactly on a matching instant
C21_Witness ==
    /\ ev.type = "started"
    /\ sched.enabled
    /\ CronMatches(now)
    /\ sched.next_run = now + CronPeriod

\* the cron setting cannot be turned into a next_run
ScheduleFails == GetNextRaises(EffectiveCron(cron_expr))

\* C22 as stated: with the report enabled and a cron expression that fails
\* to parse, the monitor still starts (no configuration error), reporting
\* is disabled, should_run() is false and no status report is sent.
C22_Original ==
    (config_file = "present" /\ report_enabled /\ ScheduleFails)
        => /\ ev.type \notin {"config_error", "digest"}
           /\ ~sched.enabled
           /\ ~ShouldRun(sched, now)

\* C22 as amended: the same for a cron expression that the start-up
\* validation let through (it accepted it, or croniter is not installed)
\* and for which no next_run can be computed.
C22_InitFailureDisablesReport ==
    (/\ config_file = "present"
     /\ report_enabled
     /\ ~ValidateRaises(report_enabled, croniter_available, cron_expr)
     /\ ScheduleFails \/ ~croniter_available)
        => /\ ev.type \notin {"config_error", "digest"}
           /\ ~sched.enabled
           /\ ~ShouldRun(sched, now)

\* a cycle completed although get_next raised in _init_schedule
C22_Witness ==
    /\ config_file = "present"
    /\ report_enabled
    /\ croniter_available
    /\ cron_expr = "unmatchable"
    /\ ev.type = "cycle_done"
    /\ ~sched.enabled

\* the configuration has an error: no file, or a cron expression that
\* croniter cannot parse
ConfigError == config_file = "missing" \/ CroniterRaises(cron_expr)

\* an error the start-up check finds
CheckedConfigError ==
    \/ config_file = "missing"
    \/ report_enabled /\ croniter_available /\ CroniterRaises(cron_expr)

\* C23 as stated: with a configuration error the process never gets past
\* its start-up, which ends in the error exit.
C23_Original ==
    ConfigError => (pc = "down" /\ ev.type \in {"init", "tick", "config_error"})

\* C23 as amended: the same for a missing file and for an unparsable cron
\* expression of an enabled report with croniter installed.
C23_CheckedConfigErrorIsFatal ==
    CheckedConfigError
        => (pc = "down" /\ ev.type \in {"init", "tick", "config_error"})

\* the start-up validation rejected the cron expression
C23_Witness ==
    /\ config_file = "present"
    /\ report_enabled
    /\ croniter_available
    /\ cron_expr = "malformed"
    /\ ev.type = "config_error"
    /\ pc = "down"

\* the positions inside run_once
CyclePcs == {"sys_send", "sys_recover", "sys_clear", "docker", "dock_clear",
             "dock_record", "report"}

\* C24 as stated: once a stop signal has been handled, at any position
\* after the handlers were installed, no monitoring cycle is started.
C24_Original ==
    [][ hStop => ev'.type # "begin" ]_vars

\* C25: a stop signal handled while a cycle is in progress changes nothing
\* but the flag; the cycle goes on through its own steps and leaves
\* run_once only at its end (or through an exception of its own), never
\* because of the signal, and run() returns only from between two cycles.
C25_StopDoesNotAbortCycle ==
    /\ [][ (pc \in CyclePcs /\ running /\ ~running')
              => (pc' = pc /\ ev' = ev /\ state' = state /\ todo' = todo
                  /\ rec_todo' = rec_todo) ]_vars
    /\ [][ (pc \in CyclePcs /\ ~running)
              => /\ pc' \in CyclePcs \cup {"idle"}
                 /\ pc' = "idle"
                      => ev'.type \in {"cycle_done", "cycle_error"} ]_vars
    /\ [](ev.type = "stopped" => pc = "stopped")
    /\ [][ pc' = "stopped" => (pc = "idle" /\ sleep_left = 0) ]_vars

\* the status report of a cycle is sent after the stop signal arrived in
\* that cycle
C25_Witness ==
    /\ ~running
    /\ pc = "report"
    /\ ev.type = "digest"

\* C26: when the stop signal arrives during the sleep between two cycles,
\* at most one more time.sleep(1) completes, for every check_interval, and
\* run() returns.
C26_StopEndsSleepWithinOneTick ==
    /\ [](hSleepStop => hTicks <= 1)
    /\ [][ hSleepStop => ev'.type # "begin" ]_vars
    /\ (hSleepStop ~> pc = "stopped")

\* the signal arrived during a sleep with a further iteration left; one
\* tick later run() has returned
C26_Witness ==
    /\ hSleepStop
    /\ hTicks = 1
    /\ check_interval >= 2
    /\ pc = "stopped"

\* C27: an exception raised inside run_once is caught in run(): the loop
\* goes to its sleep with the flag unchanged, and unless a stop is
\* requested the next cycle starts.
C27_CycleErrorKeepsLoop ==
    /\ [][ (pc \in CyclePcs /\ pc' \notin CyclePcs)
              => (pc' = "idle" /\ running' = running
                  /\ sleep_left' = check_interval) ]_vars
    /\ [](ev.type = "cycle_error" => pc = "idle")
    /\ ((ev.type = "cycle_error" /\ ~hStop)
            ~> (ev.type = "begin" \/ hStop))

\* a cycle starts after the one before it raised
C27_Witness ==
    /\ ev.type = "begin"
    /\ ~StateOk(state)
    /\ ~hStop
    /\ now > Epoch0

\* ------------------------------------------------ notification delivery
SendTypes == {"alert", "recovery", "docker_recovery", "docker_alert",
              "digest"}
\* where run_once stands right after each kind of send_* call returned
AfterSend(type) ==
    CASE type = "alert" -> "sys_recover"
      [] type = "recovery" -> "sys_clear"
      [] type = "docker_recovery" -> "dock_clear"
      [] type = "docker_alert" -> "dock_record"
      [] type = "digest" -> "report"
      [] OTHER -> "idle"

\* C28: a send_* call whose every attempt met a request error or a
\* non-zero errcode is followed by the next statement of run_once (the
\* recovery loop after an alert, clear_alert after a recovery, record_alert
\* after a Docker alert, update_next_run after the digest), and a cycle
\* with such a failure is left only by the return of run_once unless a
\* later call raised for another reason.
C28_DeliveryFailureKeepsCycle ==
    /\ [](ev.refused => (ev.type \in SendTypes /\ ev.sent = "failed"
                           /\ pc = AfterSend(ev.type)))
    /\ [][ (hCycFailed /\ pc \in CyclePcs /\ pc' \notin CyclePcs
              /\ ev'.sent # "raised")
            => (ev'.type = "cycle_done" /\ pc' = "idle") ]_vars

\* a cycle in which a delivery failed ends normally: both alerts are
\* recorded, the container alert was handled and the digest was sent
C28_Witness ==
    /\ hCycFailed
    /\ ev.type = "cycle_done"
    /\ hCycDigests = 1
    /\ hDockCalls > 0
    /\ IsActive(state, WebStatusKey)
    /\ IsActive(state, ConnectionsKey)

\* what the retry policy of the notifier prescribes for the answers: the
\* attempt that ends the call and the seconds waited after each attempt
FirstOk(answers) ==
    IF \E i \in 1..MaxRetries : answers[i] = "ok"
    THEN CHOOSE i \in 1..MaxRetries :
             /\ answers[i] = "ok"
             /\ \A j \in 1..(i - 1) : answers[j] # "ok"
    ELSE MaxRetries
DoublingWaits(n) == [i \in 1..n |-> IF i < n THEN 2 ^ (i - 1) ELSE 0]

\* C29 as stated: a call of send() whose attempts are answered with errcode
\* 0, another errcode or a request error makes at most max_retries
\* attempts, stops at the first errcode 0 and returns true, waits 1s after
\* a failed first attempt and 2s after a failed second one whatever the
\* failure was, and returns false after the last failed attempt.
C29_Original ==
    (/\ wire.out # NoResult
     /\ wire.enabled
     /\ \A i \in 1..MaxRetries :
            wire.answers[i] \in {"ok", "errcode", "request_error"})
    => /\ wire.out.attempts <= MaxRetries
       /\ wire.out.attempts = FirstOk(wire.answers)
       /\ ~wire.out.raised
       /\ wire.out.result = (\E i \in 1..MaxRetries : wire.answers[i] = "ok")
       /\ wire.out.waits = DoublingWaits(wire.out.attempts)

ClearPcs == {"sys_clear", "dock_clear"}

\* C30: after a send that returned false the state is what a delivered one
\* leaves. The keys of a failed alert are recorded active with last_alert
\* at the time of the send; a failed Docker alert is followed by
\* record_alert of its key and a failed recovery by clear_alert of its key.
\* Nothing is kept for a retry: an alert for a key goes out only a cooldown
\* after the previous send for it, and a recovery only for a key that is
\* recorded active.
C30_FailedSendIsAbandoned ==
    /\ []((ev.type = "alert" /\ ev.sent = "failed")
            => \A k \in ev.keys :
                   /\ k \in DOMAIN state.alerts
                   /\ state.alerts[k].active
                   /\ state.alerts[k].last_alert = now)
    /\ []((ev.type = "docker_alert" /\ ev.sent = "failed")
            => (pc = "dock_record" /\ ev.keys = {cur}))
    /\ [][ (pc = "dock_record" /\ pc' # "dock_record")
            => /\ cur \in DOMAIN state'.alerts
               /\ state'.alerts[cur].active
               /\ state'.alerts[cur].last_alert = now ]_vars
    /\ []((ev.type \in RecoveryTypes /\ ev.sent = "failed")
            => (pc \in ClearPcs /\ ev.keys = {cur}))
    /\ [][ (pc \in ClearPcs /\ pc' \notin ClearPcs)
            => (cur \in DOMAIN state'.alerts => ~state'.alerts[cur].active)
       ]_vars
    /\ [][ (ev'.type \in AlertTypes /\ tracked \in ev'.keys
              /\ hSent # NoTime)
            => now' - hSent >= Cooldown ]_vars
    /\ [][ (pc \notin ClearPcs /\ pc' \in ClearPcs)
            => (cur' \in DOMAIN state.alerts /\ state.alerts[cur'].active)
       ]_vars

\* every send fails; the key alerted before is alerted again within the
\* same breach once the cooldown has passed
C30_Witness ==
    /\ webhook = "unconfigured"
    /\ ev.type \in AlertTypes
    /\ ev.sent = "failed"
    /\ tracked \in ev.keys
    /\ hStreakSent = 2

\* ------------------------------------------------- send_recovery = false
\* C31: with send_recovery false no recovery notification is dispatched,
\* no recovery loop has a key to handle and no key that is active stops
\* being active, in either pool; should_alert answers by the age of the
\* last record alone and two alert notifications for a key are a cooldown
\* apart, as with send_recovery true.
C31_NoRecoveryWhenDisabled ==
    /\ [][ ~send_recovery
            => /\ ev'.type \notin RecoveryTypes \cup {"clear"}
               /\ \A k \in Keys :
                     (StateOk(state) /\ IsActive(state, k))
                         => (StateOk(state') /\ IsActive(state', k)) ]_vars
    /\ [](~send_recovery => rec_todo = {})
    /\ [][ EvaluatedTracked
            => (ev'.type \in {"record", "docker_alert"}
                  <=> now - LastAlertOf(state, tracked) >= Cooldown) ]_vars
    /\ [][ (~send_recovery /\ ev'.type \in AlertTypes
              /\ tracked \in ev'.keys /\ hSent # NoTime)
            => now' - hSent >= Cooldown ]_vars

\* with send_recovery false an alerted key is checked, found healthy and
\* left active by the recovery phase
C31_Witness ==
    /\ ~send_recovery
    /\ pc \in {"sys_recover", "docker"}
    /\ ev.type \in {"no_alert", "docker_begin"}
    /\ hSent # NoTime
    /\ IsActive(state, tracked)
    /\ tracked \notin alerts \cup docker_alerts
    /\ StartsWith(tracked, "docker") \/ tracked \in checked_keys

\* ------------------------------------------------ memory and state file
\* the state file reads back as the records held in memory
Persisted == LoadState(disk) = [raised |-> FALSE, state |-> state]

\* C32: when record_alert or clear_alert has returned and its write
\* succeeded, the state file holds the records of memory (same keys, same
\* last_alert and active), and this stays so through every later step of
\* the process up to the next write that fails.
C32_PersistedEqualsMemory ==
    /\ []((ev.type \in {"record", "clear"} /\ ev.write = "ok") => Persisted)
    /\ [][ (Persisted /\ pc # "down" /\ ev'.write \notin FailedWrites)
            => Persisted' ]_vars

\* a successful write after a failed one: the file holds both records again
C32_Witness ==
    /\ ev.type = "clear"
    /\ ev.write = "ok"
    /\ wfails > 0
    /\ Cardinality(DOMAIN state.alerts) = 2
    /\ Persisted

\* ------------------------------------------- last_alert and notification
\* C33 as stated: last_alert of a key changes only by a record_alert whose
\* cycle dispatches an alert notification for the key, a suppressed breach
\* leaves the store as it is, and a breaching key that was notified before
\* is notified again exactly when its evaluation comes at least Cooldown
\* seconds after the previous notification.
C33_Original ==
    /\ [][ (pc # "down"
              /\ LastAlertOf(state', tracked) # LastAlertOf(state, tracked))
            => (ev'.type = "record" /\ tracked \in ev'.keys) ]_vars
    /\ [][ (pc = "sys_send" /\ pc' # "sys_send"
              /\ tracked \in alerts_to_send)
            => (ev'.type = "alert" /\ tracked \in ev'.keys) ]_vars
    /\ [](pc = "dock_record" /\ cur = tracked => hSent # NoTime)
    /\ [][ ev'.type = "suppress" => state' = state ]_vars
    /\ [][ (EvaluatedTracked /\ hSent # NoTime)
            => (ev'.type \in {"record", "docker_alert"}
                  <=> now - hSent >= Cooldown) ]_vars

\* ------------------------------------------------ suppressed breaches
\* the cycle that just ended ran to its end and the tracked key breached
\* in it
BreachedInCycle ==
    /\ ev.type = "cycle_done"
    /\ hPrevBreach
    /\ StateOk(state)

C35_ClearAlertFrame ==
    [][ (pc \in ClearPcs)
        => IF cur \in DOMAIN state.alerts
           THEN /\ DOMAIN state'.alerts = DOMAIN state.alerts
                /\ ~state'.alerts[cur].active
                /\ state'.alerts[cur].last_alert = state.alerts[cur].last_alert
                /\ \A k \in DOMAIN state.alerts \ {cur} :
                       state'.alerts[k] = state.alerts[k]
                /\ ev'.write \in WriteOutcomes
                /\ ev'.write = "ok" => disk' = JsonDump(state')
           ELSE /\ state' = state
                /\ disk' = disk
                /\ wfails' = wfails
                /\ ev'.write = "none" ]_vars

\* clear_alert was called with a key the store does not hold, next to
\* records of other keys
C35_Witness ==
    /\ ev.type = "clear"
    /\ ev.write = "none"
    /\ \E k \in ev.keys : k \notin DOMAIN state.alerts
    /\ \E k \in DOMAIN state.alerts : state.alerts[k].active

\* ------------------------------------------------------ pace of the loop
\* C36 as stated: while no stop is requested, a cycle starts exactly
\* check_interval seconds after the previous cycle started, however long
\* that cycle took.  (Readings of the clock at the horizon are left out.)
C36_Original ==
    [][ (pc = "idle" /\ pc' = "sys_send" /\ hBegin # NoTime /\ ~hStop
           /\ now < MaxTime)
        => now = hBegin + check_interval ]_vars


\* C37: a Docker recovery notification, which reports the container as
\* running, is not dispatched in a cycle in which a key of the same
\* container is breaching (and so not in a cycle in which an alert for
\* that container is dispatched).
C37_Original ==
    ev.type = "docker_recovery"
        => \A r \in ev.keys, k \in docker_alerts :
              ContainerOf(k) # ContainerOf(r)

\* C38: a Docker recovery notification is dispatched, and its key cleared,
\* only in a cycle in which the status of the container was obtained and
\* the key was found not breaching; otherwise the active key is left as it
\* is.
C38_Original ==
    /\ [](ev.type = "docker_recovery"
            => obtained /\ ev.keys \cap docker_alerts = {})
    /\ [][ (pc = "dock_clear" /\ ~obtained)
             => (StateOk(state) /\ StateOk(state')
                 /\ IsActive(state', cur) = IsActive(state, cur)) ]_vars


\* C39: in the single-file monitor one run_once does not dispatch both an
\* alert and a recovery notification for the same system key: no recovery
\* is sent for a key alerted in the cycle, and a system key alerted in the
\* cycle is active when the cycle is done.
C39_Original ==
    /\ pc \in {"mon_sys_clear", "mon_net_clear"} /\ ev.type = "recovery"
          => ev.keys \cap hApproved = {}
    /\ ev.type = "cycle_done"
          => \A k \in hApproved \cap SystemKeys :
                StartsWith(k, "system") => IsActive(state, k)


\* the scheduler check of run_once is reached and finds the report due
CheckDue ==
    /\ pc = "docker"
    /\ rec_todo = {}
    /\ todo = << >>
    /\ sched.enabled
    /\ sched.next_run # NoTime
    /\ now >= sched.next_run

\* the status report was handed to the notifier in this step
DigestDispatched == pc = "docker" /\ rec_todo = {} /\ todo = << >>
                        /\ ev'.type \in {"digest", "cycle_error"}

\* C40: with the report enabled and the loop running, every next_run is
\* served: the cycle whose scheduler check is at or after next_run
\* dispatches the digest and ends with a later next_run, a cycle whose check
\* is before next_run dispatches none, and a next_run within the horizon is
\* followed by such a cycle unless the loop is stopped.
C40_Original ==
    /\ [][ (CheckDue /\ pc' # pc) => DigestDispatched ]_vars
    /\ [][ ((CheckDue \/ pc = "report") /\ pc' = "idle")
              => sched'.next_run > sched.next_run ]_vars
    /\ [][ (DigestDispatched /\ pc' # pc) => CheckDue ]_vars
    /\ \A n \in Time :
          (sched.enabled /\ sched.next_run = n /\ check_interval > 0)
              ~> (sched.next_run > n \/ hStop \/ pc = "stopped")

====
